---------------------------- MODULE Spec2Model ----------------------------
(***************************************************************************)
(* A model of ts-java's ClassesMap (src/lib/classes-map.ts): the whitelist *)
(* of package expressions, the four initialization phases, the recursive   *)
(* class mapper and the merge of inherited overloads.                      *)
(*                                                                         *)
(* Java names, package expressions and regular-expression sources are      *)
(* sequences of one-character strings, so that slicing, escaping, matching *)
(* and sorting are computed the way the code computes them.                *)
(***************************************************************************)
EXTENDS Integers, Sequences, FiniteSets, TLC

VARIABLES
    options,            \* TsJavaOptions: [packages, classes, classpath]
    includedPatterns,   \* set of RegExp sources compiled by the constructor
    query,              \* argument of a public inWhiteList() call
    answer,             \* what that call found: [matched, allowed], or NoAnswer
    step,               \* position in initialize()'s chain of phases
    failed,             \* an exception has rejected initialize()'s promise
    error,              \* that exception: [kind, name], or NoError
    scanned,            \* jars whose getWhitedListedClassesInJar promise resolved
    jarResult,          \* jar -> the `result` array of its scan
    allClasses,
    allExcludedClasses,
    classCache,         \* names with a loaded Java.Class
    shortToLongNameMap, \* [isNull, map]: null until createShortNameMap runs
    snPending,          \* names allClasses.forEach has yet to visit there
    work,               \* the Work of analyzeIncludedClasses: [live, todo, done]
    stack,              \* the active mapClass calls, innermost last
    classes,            \* the class table: fullName -> ClassDefinition
    mapCalls,           \* history: how often mapClass was entered per name
    unhandledInterfaces,
    unhandledSuperClasses,
    unhandledTypes,
    interfaceDepthCache

confVars == <<options, includedPatterns>>
wlVars   == <<query, answer>>
scanVars == <<scanned, jarResult>>
setVars  == <<allClasses, allExcludedClasses, classCache>>
snVars   == <<shortToLongNameMap, snPending>>
ctlVars  == <<step, failed, error>>
mapVars  == <<work, stack, classes, mapCalls>>
diagVars == <<unhandledInterfaces, unhandledSuperClasses, unhandledTypes, interfaceDepthCache>>

vars == <<confVars, wlVars, ctlVars, scanVars, setVars, snVars, mapVars, diagVars>>

(***************************************************************************)
(* Characters and strings.                                                 *)
(***************************************************************************)
Digits == {"0", "1", "2", "3", "4", "5", "6", "7", "8", "9"}

LowerCase == {"a", "b", "c", "d", "e", "f", "g", "h", "i", "j", "k", "l", "m",
              "n", "o", "p", "q", "r", "s", "t", "u", "v", "w", "x", "y", "z"}

UpperCase == {"A", "B", "C", "D", "E", "F", "G", "H", "I", "J", "K", "L", "M",
              "N", "O", "P", "Q", "R", "S", "T", "U", "V", "W", "X", "Y", "Z"}

\* The regular-expression class \w.
IsWordChar(c) == c \in LowerCase \cup UpperCase \cup Digits \cup {"_"}

\* The regular-expression class \d.
IsDigit(c) == c \in Digits

EndsWith(s, suffix) ==
    /\ Len(s) >= Len(suffix)
    /\ SubSeq(s, Len(s) - Len(suffix) + 1, Len(s)) = suffix

StartsWith(s, prefix) ==
    /\ Len(s) >= Len(prefix)
    /\ SubSeq(s, 1, Len(prefix)) = prefix

\* String.prototype.replace with a global one-character class: every
\* character of s that is in `chars` is replaced by prefix + that character.
RECURSIVE EscapeChars(_, _, _)
EscapeChars(s, chars, prefix) ==
    IF s = << >> THEN << >>
    ELSE (IF Head(s) \in chars THEN prefix \o <<Head(s)>> ELSE <<Head(s)>>)
            \o EscapeChars(Tail(s), chars, prefix)

(***************************************************************************)
(* Regular expressions.  A RegExp is kept as its source text; RegExpItems  *)
(* reads the source the way the JavaScript engine does for the constructs  *)
(* the mapper produces: ^, $, an escaped character, a bracket class        *)
(* followed by +, and literal characters.                                  *)
(***************************************************************************)
RECURSIVE BracketEnd(_, _)
BracketEnd(src, i) ==
    IF i > Len(src) THEN i
    ELSE IF src[i] = "]" THEN i
    ELSE IF src[i] = "\\" THEN BracketEnd(src, i + 2)
    ELSE BracketEnd(src, i + 1)

RECURSIVE BracketMembers(_, _, _)
BracketMembers(src, i, last) ==
    IF i >= last THEN [word |-> FALSE, chars |-> {}]
    ELSE IF src[i] = "\\"
         THEN LET rest == BracketMembers(src, i + 2, last)
              IN  IF src[i + 1] = "w"
                  THEN [rest EXCEPT !.word = TRUE]
                  ELSE [rest EXCEPT !.chars = @ \cup {src[i + 1]}]
         ELSE LET rest == BracketMembers(src, i + 1, last)
              IN  [rest EXCEPT !.chars = @ \cup {src[i]}]

RECURSIVE RegExpItems(_, _)
RegExpItems(src, i) ==
    IF i > Len(src) THEN << >>
    ELSE IF src[i] = "^" THEN <<[k |-> "bol"]>> \o RegExpItems(src, i + 1)
    ELSE IF src[i] = "$" THEN <<[k |-> "eol"]>> \o RegExpItems(src, i + 1)
    ELSE IF src[i] = "\\"
         THEN <<[k |-> "lit", c |-> src[i + 1]]>> \o RegExpItems(src, i + 2)
    ELSE IF src[i] = "["
         THEN LET close == BracketEnd(src, i + 1)
                  m     == BracketMembers(src, i + 1, close)
                  plus  == close < Len(src) /\ src[close + 1] = "+"
              IN  <<[k |-> "set", word |-> m.word, chars |-> m.chars, plus |-> plus]>>
                      \o RegExpItems(src, IF plus THEN close + 2 ELSE close + 1)
    ELSE <<[k |-> "lit", c |-> src[i]]>> \o RegExpItems(src, i + 1)

InSet(item, c) == (item.word /\ IsWordChar(c)) \/ c \in item.chars

\* Does items[i..] match s starting at position j (backtracking over +)?
RECURSIVE MatchFrom(_, _, _, _)
MatchFrom(items, i, s, j) ==
    IF i > Len(items) THEN TRUE
    ELSE LET it == items[i] IN
         CASE it.k = "bol" -> j = 1 /\ MatchFrom(items, i + 1, s, j)
           [] it.k = "eol" -> j = Len(s) + 1 /\ MatchFrom(items, i + 1, s, j)
           [] it.k = "lit" -> /\ j <= Len(s)
                              /\ s[j] = it.c
                              /\ MatchFrom(items, i + 1, s, j + 1)
           [] it.k = "set" ->
                IF it.plus
                THEN \E n \in 1..(Len(s) - j + 1) :
                        /\ \A x \in j..(j + n - 1) : InSet(it, s[x])
                        /\ MatchFrom(items, i + 1, s, j + n)
                ELSE /\ j <= Len(s)
                     /\ InSet(it, s[j])
                     /\ MatchFrom(items, i + 1, s, j + 1)

\* className.match(ns) !== null
RegExpTest(src, s) ==
    LET items == RegExpItems(src, 1)
    IN  \E start \in 1..(Len(s) + 1) : MatchFrom(items, 1, s, start)

(***************************************************************************)
(* The whitelist.                                                          *)
(***************************************************************************)
JavaLangObject ==
    <<"j", "a", "v", "a", ".", "l", "a", "n", "g", ".", "O", "b", "j", "e", "c", "t">>

JavaLangString ==
    <<"j", "a", "v", "a", ".", "l", "a", "n", "g", ".", "S", "t", "r", "i", "n", "g">>

requiredCoreClasses == {JavaLangObject, JavaLangString}

\* '[\\w\\$]+$': the text that replaces the * of an expression ending in .*
OneClassName == <<"[", "\\", "w", "\\", "$", "]", "+", "$">>

\* Mutant: the replacement of * lacks the closing $, so the match may stop
\* before the end of the name.
packageExpressionToRegExp_Unanchored(expr) ==
    LET e == IF EndsWith(expr, <<".", "*">>)
                THEN SubSeq(expr, 1, Len(expr) - 1) \o SubSeq(OneClassName, 1, 7)
             ELSE IF EndsWith(expr, <<".", "*", "*">>)
                THEN SubSeq(expr, 1, Len(expr) - 2)
             ELSE expr
    IN  <<"^">> \o EscapeChars(e, {"."}, <<"\\">>)

packageExpressionToRegExp(expr) ==
    LET e == IF EndsWith(expr, <<".", "*">>)
                THEN SubSeq(expr, 1, Len(expr) - 1) \o OneClassName
             ELSE IF EndsWith(expr, <<".", "*", "*">>)
                THEN SubSeq(expr, 1, Len(expr) - 2)
             ELSE expr
    IN  <<"^">> \o EscapeChars(e, {"."}, <<"\\">>)

\* The pattern the constructor adds for a seed class that no package
\* expression selects: '^' + className with . and $ escaped + '$'.
SeedPattern(className) ==
    <<"^">> \o EscapeChars(className, {".", "$"}, <<"\\">>) \o <<"$">>

\* /\$\d+$/.test(className)
IsAnon(className) ==
    \E k \in 1..(Len(className) - 1) :
        /\ className[k] = "$"
        /\ \A x \in (k + 1)..Len(className) : IsDigit(className[x])

InWhiteListOf(patterns, className) ==
    /\ \E ns \in patterns : RegExpTest(ns, className)
    /\ ~IsAnon(className)

inWhiteList(className) == InWhiteListOf(includedPatterns, className)

\* The constructor's includedPatterns.  A seed's pattern matches that seed
\* only, so testing each seed against the package patterns alone gives the
\* set the sequential loop builds.
Constructor(opts) ==
    LET pkgs  == {packageExpressionToRegExp(e) : e \in opts.packages}
        seeds == requiredCoreClasses \cup opts.classes
    IN  pkgs \cup {SeedPattern(c) : c \in {s \in seeds : ~InWhiteListOf(pkgs, s)}}

(***************************************************************************)
(* The classpath and the reflection facts of one snapshot (the Classpath   *)
(* Scanner and the Metadata Provider).  Null stands for null/undefined.    *)
(***************************************************************************)
Null == << >>

JavaLangNumber ==
    <<"j", "a", "v", "a", ".", "l", "a", "n", "g", ".", "N", "u", "m", "b", "e", "r">>

JavaLangInteger ==
    <<"j", "a", "v", "a", ".", "l", "a", "n", "g", ".", "I", "n", "t", "e", "g", "e", "r">>

JavaLangLong ==
    <<"j", "a", "v", "a", ".", "l", "a", "n", "g", ".", "L", "o", "n", "g">>

p_I   == <<"p", ".", "I">>
p_J   == <<"p", ".", "J">>
p_K   == <<"p", ".", "K">>
p_B   == <<"p", ".", "B">>
p_D   == <<"p", ".", "D">>
p_H   == <<"p", ".", "H">>
p_H_N == <<"p", ".", "H", "$", "N">>
p_D_1 == <<"p", ".", "D", "$", "1">>
p_s_D == <<"p", ".", "s", ".", "D">>
q_D   == <<"q", ".", "D">>
q_constructor == <<"q", ".", "c", "o", "n", "s", "t", "r", "u", "c", "t", "o", "r">>
c_X   == <<"c", ".", "X">>
c_Y   == <<"c", ".", "Y">>
c_Z   == <<"c", ".", "Z">>
e_Base    == <<"e", ".", "B", "a", "s", "e">>
e_Derived == <<"e", ".", "D", "e", "r", "i", "v", "e", "d">>
a_a     == <<"a", ".", "a">>
a_a_B   == <<"a", ".", "a", "$", "B">>
dflt_a   == <<"a">>
dflt_a_B == <<"a", "$", "B">>
dflt_D   == <<"D">>

ClassUniverse ==
    {JavaLangObject, JavaLangString, JavaLangNumber, JavaLangInteger, JavaLangLong,
     p_I, p_J, p_K, p_B, p_D, p_H, p_H_N, p_D_1, p_s_D, q_D, q_constructor,
     c_X, c_Y, c_Z, e_Base, e_Derived, a_a, a_a_B, dflt_a, dflt_a_B,
     dflt_D}

\* The letter U+00E9, which a Java identifier may hold and \w does not match.
EAcute == "eacute"

FooE == <<"f", "o", "o", EAcute>>

TVoid == <<"v", "o", "i", "d">>
TInt == <<"i", "n", "t">>
Foo  == <<"f", "o", "o">>
Bar  == <<"b", "a", "r">>
Hash == <<"h", "a", "s", "h">>

Method(name, paramTypes, returnType, declaringClass) ==
    [name |-> name, paramTypes |-> paramTypes, returnType |-> returnType,
     declaringClass |-> declaringClass]

Class(modifiers, enclosing, superclass, interfaces, methods) ==
    [modifiers |-> modifiers, enclosingClass |-> enclosing,
     superclass |-> superclass, interfaces |-> interfaces, methods |-> methods]

\* What reflection reports for each class: I is the root of a diamond
\* I <- J, K <- D; D extends B; q.D extends p.D; H is package-private and
\* encloses the public H$N; D$1 is anonymous; c.X and c.Y are two interfaces
\* that name each other; package a holds a class a with a nested class B,
\* and so does the unnamed package, which also has a class D.
Reflect(c) ==
    CASE c = JavaLangObject ->
            Class("public", Null, Null, << >>,
                  {Method(Hash, << >>, TInt, JavaLangObject)})
      [] c = JavaLangString ->
            Class("public", Null, JavaLangObject, << >>,
                  {Method(Hash, << >>, TInt, JavaLangString)})
      [] c = JavaLangNumber ->
            Class("public", Null, JavaLangObject, << >>,
                  {Method(Hash, << >>, TInt, JavaLangObject)})
      [] c \in {JavaLangInteger, JavaLangLong} ->
            Class("public", Null, JavaLangNumber, << >>,
                  {Method(Hash, << >>, TInt, c)})
      [] c = p_I ->
            Class("public", Null, Null, << >>,
                  {Method(Foo, << >>, TVoid, p_I)})
      [] c = p_J ->
            Class("public", Null, Null, <<p_I>>,
                  {Method(Foo, << >>, TVoid, p_J), Method(Bar, <<TInt>>, TVoid, p_J)})
      [] c = p_K ->
            Class("public", Null, Null, <<p_I>>,
                  {Method(Foo, << >>, TVoid, p_I)})
      [] c = p_B ->
            Class("public", Null, JavaLangObject, << >>,
                  {Method(Foo, << >>, TVoid, p_B),
                   Method(Hash, << >>, TInt, JavaLangObject)})
      [] c = p_D ->
            Class("public", Null, p_B, <<p_K, p_J>>,
                  {Method(Foo, << >>, TVoid, p_B), Method(Foo, <<TInt>>, TVoid, p_D),
                   Method(Bar, <<TInt>>, TVoid, p_D),
                   Method(Hash, << >>, TInt, JavaLangObject)})
      [] c = p_H ->
            Class("package", Null, JavaLangObject, << >>,
                  {Method(Hash, << >>, TInt, JavaLangObject)})
      [] c = p_H_N ->
            Class("public", p_H, JavaLangObject, <<p_I>>,
                  {Method(Foo, << >>, TVoid, p_H_N),
                   Method(Hash, << >>, TInt, JavaLangObject)})
      [] c = p_D_1 ->
            Class("package", p_D, JavaLangObject, <<p_I>>,
                  {Method(Foo, << >>, TVoid, p_D_1),
                   Method(Hash, << >>, TInt, JavaLangObject)})
      [] c = p_s_D ->
            Class("public", Null, JavaLangObject, <<p_J>>,
                  {Method(Foo, << >>, TVoid, p_s_D), Method(Bar, <<TInt>>, TVoid, p_s_D),
                   Method(Hash, << >>, TInt, JavaLangObject)})
      [] c = q_D ->
            Class("public", Null, p_D, <<p_K, p_J>>,
                  {Method(Foo, << >>, TVoid, p_B), Method(Foo, <<TInt>>, TVoid, p_D),
                   Method(Bar, <<TInt>>, TVoid, p_D),
                   Method(Hash, << >>, TInt, JavaLangObject)})
      [] c = q_constructor ->
            Class("public", Null, JavaLangObject, << >>,
                  {Method(Hash, << >>, TInt, JavaLangObject)})
      [] c = c_X -> Class("public", Null, Null, <<c_Y>>, {})
      [] c = c_Y -> Class("public", Null, Null, <<c_X>>, {})
      [] c = e_Base ->
            Class("public", Null, JavaLangObject, << >>,
                  {Method(Foo, << >>, TVoid, e_Base),
                   Method(Hash, << >>, TInt, JavaLangObject)})
      [] c = e_Derived ->
            Class("public", Null, e_Base, << >>,
                  {Method(Foo, << >>, TVoid, e_Base),
                   Method(Hash, << >>, TInt, JavaLangObject)})
      [] c = c_Z ->
            Class("public", Null, JavaLangObject, << >>,
                  {Method(FooE, << >>, TVoid, c_Z),
                   Method(Hash, << >>, TInt, JavaLangObject)})
      [] c \in {a_a, dflt_a, dflt_D} ->
            Class("public", Null, JavaLangObject, << >>,
                  {Method(Hash, << >>, TInt, JavaLangObject)})
      [] c = a_a_B ->
            Class("public", a_a, JavaLangObject, << >>,
                  {Method(Hash, << >>, TInt, JavaLangObject)})
      [] c = dflt_a_B ->
            Class("public", dflt_a, JavaLangObject, << >>,
                  {Method(Hash, << >>, TInt, JavaLangObject)})

ReplaceChar(s, from, to) == [i \in 1..Len(s) |-> IF s[i] = from THEN to ELSE s[i]]

DotClass == <<".", "c", "l", "a", "s", "s">>

\* The zip entry that holds a class.
EntryOf(className) == ReplaceChar(className, ".", "/") \o DotClass

Manifest == <<"M", "E", "T", "A", "-", "I", "N", "F", "/", "M", "F">>

Jars == {"rt.jar", "p.jar", "q.jar", "c.jar", "e.jar", "a.jar", "d.jar"}

\* q.jar repeats two entries of p.jar: one the whitelist can accept, one
\* (the anonymous class) it always rejects.
JarEntries(jar) ==
    CASE jar = "rt.jar" ->
            {Manifest} \cup {EntryOf(c) : c \in {JavaLangObject, JavaLangString, JavaLangNumber,
                                                 JavaLangInteger, JavaLangLong}}
      [] jar = "p.jar" ->
            {Manifest} \cup {EntryOf(c) : c \in {p_I, p_J, p_K, p_B, p_D, p_H, p_H_N,
                                                 p_D_1, p_s_D}}
      [] jar = "q.jar" -> {EntryOf(c) : c \in {q_D, q_constructor, p_I, p_D_1}}
      [] jar = "e.jar" -> {Manifest} \cup {EntryOf(c) : c \in {e_Base, e_Derived}}
      [] jar = "c.jar" -> {EntryOf(c) : c \in {c_X, c_Y, c_Z}}
      [] jar = "d.jar" -> {EntryOf(dflt_D)}
      [] jar = "a.jar" -> {EntryOf(c) : c \in {a_a, a_a_B, dflt_a, dflt_a_B}}

PackageChoices ==
    {{<<"p", ".", "*">>},
     {<<"p", ".", "*", "*">>},
     {<<"q", ".", "*">>},
     {<<"p", ".", "*">>, <<"q", ".", "*">>},
     {<<"p", ".", "*", "*">>, <<"q", ".", "*">>},
     {<<"c", ".", "*">>}}

ClassChoices == {{}, {p_J}, {JavaLangNumber, p_s_D}}

ClasspathChoices ==
    {{"rt.jar", "p.jar"}, {"rt.jar", "p.jar", "q.jar"}, {"p.jar", "q.jar"},
     {"rt.jar", "c.jar"}}

\* The scenario of a base class and a class derived from it, with and
\* without the platform's jar on the classpath, and with two boxed types
\* configured as classes; and the scenario of a class whose only in-scope
\* interface (p.I) lies behind two interfaces that are out of scope; and
\* the scenario of a class D of the unnamed package beside p.D and p.s.D.
ScenarioOptions ==
    {[packages |-> {<<"e", ".", "*">>}, classes |-> {}, classpath |-> cp] :
        cp \in {{"rt.jar", "e.jar"}, {"e.jar"}}}
    \cup {[packages |-> {<<"e", ".", "*">>},
           classes |-> {JavaLangInteger, JavaLangLong},
           classpath |-> {"rt.jar", "e.jar"}]}
    \cup {[packages |-> {<<"q", ".", "*">>},
           classes |-> {p_I},
           classpath |-> {"rt.jar", "p.jar", "q.jar"}]}
    \cup {[packages |-> {<<"p", ".", "*", "*">>},
           classes |-> {dflt_D},
           classpath |-> {"rt.jar", "p.jar", "d.jar"}]}

\* The scenario of a package that holds a class of the package's own name
\* with a nested class, beside a class of that name in the unnamed package.
NestedNameOptions ==
    {[packages |-> {<<"a", ".", "*">>}, classes |-> {}, classpath |-> cp] :
        cp \in {{"a.jar"}, {"rt.jar", "a.jar"}}}

MapperOptions ==
    {[packages |-> pk, classes |-> cl, classpath |-> cp] :
        pk \in PackageChoices, cl \in ClassChoices, cp \in ClasspathChoices}
    \cup ScenarioOptions

(***************************************************************************)
(* initialize(): the chain of phases.                                      *)
(***************************************************************************)
\* Mutant: the classes are analyzed before the short-name map is created.
initialize_AnalyzeFirst ==
    <<"preScanAllClasses", "loadClassCache", "analyzeIncludedClasses",
      "createShortNameMap">>

initialize ==
    <<"preScanAllClasses", "loadClassCache", "createShortNameMap",
      "analyzeIncludedClasses">>

Phase ==
    IF failed THEN "failed"
    ELSE IF step > Len(initialize) THEN "done"
    ELSE initialize[step]

NoError == [kind |-> "none"]

\* An exception leaves the running phase and rejects initialize()'s promise.
Throw(kind, name) == failed' = TRUE /\ error' = [kind |-> kind, name |-> name]

\* The state the constructor leaves.
Constructed(opts) ==
    /\ options = opts
    /\ includedPatterns = Constructor(opts)
    /\ step = 1
    /\ failed = FALSE
    /\ error = NoError
    /\ scanned = {}
    /\ jarResult = [j \in Jars |-> {}]
    /\ allClasses = {}
    /\ allExcludedClasses = {}
    /\ classCache = {}
    /\ shortToLongNameMap = [isNull |-> TRUE, map |-> << >>]
    /\ snPending = {}
    /\ work = [live |-> FALSE, todo |-> {}, done |-> {}]
    /\ stack = << >>
    /\ classes = << >>
    /\ mapCalls = [c \in ClassUniverse |-> 0]
    /\ unhandledInterfaces = {}
    /\ unhandledSuperClasses = {}
    /\ unhandledTypes = {}
    /\ interfaceDepthCache = << >>

(***************************************************************************)
(* Phase 1: preScanAllClasses.                                             *)
(***************************************************************************)
\* entryPath.slice(0, -'.class'.length).replace(/\//g, '.')
ClassNameOfEntry(entryPath) ==
    ReplaceChar(SubSeq(entryPath, 1, Len(entryPath) - Len(DotClass)), "/", ".")

ClassNamesInJar(jar) ==
    {ClassNameOfEntry(e) : e \in {x \in JarEntries(jar) : EndsWith(x, DotClass)}}

\* One jar's scan runs to completion: the names the whitelist accepts go to
\* the promise's result, the others straight into allExcludedClasses.
getWhitedListedClassesInJar(jar) ==
    /\ Phase = "preScanAllClasses"
    /\ jar \in options.classpath \ scanned
    /\ jarResult' = [jarResult EXCEPT ![jar] = {n \in ClassNamesInJar(jar) : inWhiteList(n)}]
    /\ allExcludedClasses' =
            allExcludedClasses \cup {n \in ClassNamesInJar(jar) : ~inWhiteList(n)}
    /\ scanned' = scanned \cup {jar}
    /\ UNCHANGED <<confVars, wlVars, ctlVars, allClasses, classCache, snVars, mapVars,
                   diagVars>>

\* Mutant: each resolved promise replaces the result instead of merging.
MergeScans_Replace(results) ==
    IF options.classpath = {} THEN {}
    ELSE results[CHOOSE j \in options.classpath : TRUE]

\* result.merge(classes) for each resolved promise.
MergeScans(results) == UNION {results[j] : j \in options.classpath}

\* BluePromise.all has resolved: merge the results into allClasses.
preScanAllClasses ==
    /\ Phase = "preScanAllClasses"
    /\ scanned = options.classpath
    /\ allClasses' = MergeScans(jarResult)
    /\ step' = step + 1
    /\ UNCHANGED <<confVars, wlVars, failed, error, scanVars, allExcludedClasses, classCache,
                   snVars, mapVars, diagVars>>

(***************************************************************************)
(* Phase 2: loadClassCache.                                                *)
(***************************************************************************)
\* Mutant: the enclosing classes are not looked at.
isPublicClass_OwnModifierOnly(clazz) == Reflect(clazz).modifiers = "public"

RECURSIVE isPublicClass(_)
isPublicClass(clazz) ==
    /\ Reflect(clazz).modifiers = "public"
    /\ \/ Reflect(clazz).enclosingClass = Null
       \/ isPublicClass(Reflect(clazz).enclosingClass)

\* Classes a jar of the model holds but the class loader may fail to
\* resolve (its classpath is configured apart from options.classpath).
MayFailToLoad == {c_Z}

\* Mutant: the exception of loadClass is caught and recorded, the class is
\* skipped and the phase completes.
AbortLoad_Continue(className, visited) ==
    /\ classCache' = classCache \cup {c \in allClasses \ {className} : isPublicClass(c)}
    /\ error' = [kind |-> "loadClass", name |-> className]
    /\ step' = step + 1
    /\ UNCHANGED <<failed, allClasses, allExcludedClasses>>

\* loadClass(className) throws after the classes of `visited` were loaded.
AbortLoad(className, visited) ==
    /\ classCache' = classCache \cup {c \in visited : isPublicClass(c)}
    /\ Throw("loadClass", className)
    /\ UNCHANGED <<step, allClasses, allExcludedClasses>>

\* allClasses.forEach(loadClass ...) in whatever order the set iterates;
\* when loadClass throws, the classes visited before it stay cached and
\* the two subtract/union assignments after the loop are not reached.
loadClassCache ==
    /\ Phase = "loadClassCache"
    /\ LET nonPublic == {c \in allClasses : ~isPublicClass(c)}
       IN  \/ /\ classCache' = classCache \cup (allClasses \ nonPublic)
              /\ allClasses' = allClasses \ nonPublic
              /\ allExcludedClasses' = allExcludedClasses \cup nonPublic
              /\ step' = step + 1
              /\ UNCHANGED <<failed, error>>
           \/ \E className \in allClasses \cap MayFailToLoad :
                \E visited \in SUBSET (allClasses \ {className}) :
                    AbortLoad(className, visited)
    /\ UNCHANGED <<confVars, wlVars, scanVars, snVars, mapVars, diagVars>>

(***************************************************************************)
(* Phase 3: createShortNameMap.                                            *)
(***************************************************************************)
reservedShortNames == {<<"N", "u", "m", "b", "e", "r">>}

\* _.last(className.split('.'))
RECURSIVE shortClassName(_)
shortClassName(className) ==
    IF \E i \in 1..Len(className) : className[i] = "."
    THEN shortClassName(Tail(className))
    ELSE className

Put(map, key, value) == [k \in DOMAIN map \cup {key} |-> IF k = key THEN value ELSE map[k]]

\* The property names every object literal inherits from Object.prototype.
ObjectPrototypeNames ==
    {<<"c", "o", "n", "s", "t", "r", "u", "c", "t", "o", "r">>,
     <<"t", "o", "S", "t", "r", "i", "n", "g">>,
     <<"v", "a", "l", "u", "e", "O", "f">>,
     <<"h", "a", "s", "O", "w", "n", "P", "r", "o", "p", "e", "r", "t", "y">>}

\* key in object, for an object literal with the given own keys.
HasProperty(ownKeys, key) == key \in ownKeys \cup ObjectPrototypeNames

\* The body of the loop over allClasses, for one longName.
ShortNameEntry(map, longName) ==
    LET shortName == shortClassName(longName)
    IN  IF HasProperty(reservedShortNames, shortName) \/ HasProperty(DOMAIN map, shortName)
        THEN Put(map, shortName, Null)
        ELSE Put(map, shortName, longName)

\* this.shortToLongNameMap = {} and the start of allClasses.forEach.
createShortNameMap ==
    /\ Phase = "createShortNameMap"
    /\ shortToLongNameMap.isNull
    /\ shortToLongNameMap' = [isNull |-> FALSE, map |-> << >>]
    /\ snPending' = allClasses
    /\ UNCHANGED <<confVars, wlVars, ctlVars, scanVars, setVars, mapVars, diagVars>>

\* One iteration of the loop, in whatever order the set yields its members.
createShortNameMapVisit(longName) ==
    /\ Phase = "createShortNameMap"
    /\ ~shortToLongNameMap.isNull
    /\ longName \in snPending
    /\ shortToLongNameMap' =
            [shortToLongNameMap EXCEPT !.map = ShortNameEntry(@, longName)]
    /\ snPending' = snPending \ {longName}
    /\ UNCHANGED <<confVars, wlVars, ctlVars, scanVars, setVars, mapVars, diagVars>>

createShortNameMapReturn ==
    /\ Phase = "createShortNameMap"
    /\ ~shortToLongNameMap.isNull
    /\ snPending = {}
    /\ step' = step + 1
    /\ UNCHANGED <<confVars, wlVars, failed, error, scanVars, setVars, snVars, mapVars,
                   diagVars>>

(***************************************************************************)
(* Work (lib/work): a queue of names with a done set.  It is drained in    *)
(* whatever order next() yields.                                           *)
(***************************************************************************)
NewWork == [live |-> TRUE, todo |-> {}, done |-> {}]

addTodo(w, item) == IF item \in w.done THEN w ELSE [w EXCEPT !.todo = @ \cup {item}]

setDone(w, item) == [w EXCEPT !.todo = @ \ {item}, !.done = @ \cup {item}]

alreadyDone(w, item) == item \in w.done

(***************************************************************************)
(* Queries on class names.                                                 *)
(***************************************************************************)
LastIndexOf(s, c) ==
    LET hits == {i \in 1..Len(s) : s[i] = c}
    IN  IF hits = {} THEN 0 ELSE CHOOSE i \in hits : \A j \in hits : j <= i

\* m = /^(.*)<(.*)>$/.exec(name); m ? m[1] : name
StripGenericList(name) ==
    IF name # << >> /\ name[Len(name)] = ">"
          /\ LastIndexOf(SubSeq(name, 1, Len(name) - 1), "<") > 0
    THEN SubSeq(name, 1, LastIndexOf(SubSeq(name, 1, Len(name) - 1), "<") - 1)
    ELSE name

\* /^([\w\.]+)\.\1\$(.+)$/: outer.outer$nested becomes outer$nested.
fixGenericNestedTypeName(className) ==
    LET lens == {n \in 1..Len(className) :
                    /\ Len(className) >= 2 * n + 3
                    /\ \A i \in 1..n : IsWordChar(className[i]) \/ className[i] = "."
                    /\ className[n + 1] = "."
                    /\ SubSeq(className, n + 2, 2 * n + 1) = SubSeq(className, 1, n)
                    /\ className[2 * n + 2] = "$"}
    IN  IF lens = {} THEN className
        ELSE LET n == CHOOSE n \in lens : \A k \in lens : k <= n
             IN  SubSeq(className, 1, n) \o SubSeq(className, 2 * n + 2, Len(className))

\* classNameOnly's result, and whether it throws 'is not a known className'.
classNameOnly(possiblyGenericClassName) ==
    fixGenericNestedTypeName(StripGenericList(possiblyGenericClassName))

classNameOnlyThrows(possiblyGenericClassName) ==
    classNameOnly(possiblyGenericClassName) \notin allClasses \cup allExcludedClasses

isIncludedClass(className) == classNameOnly(className) \in allClasses

(***************************************************************************)
(* Sorting strings as Array.prototype.sort does by default: by code unit.  *)
(***************************************************************************)
CodeUnits ==
    <<" ", "$", "(", ")", "*", "+", ",", "-", ".", "/", "0", "1", "2", "3", "4", "5", "6", "7", "8", "9",
      ";", "<", ">", "A", "B", "C", "D", "E", "F", "G", "H", "I", "J", "K", "L", "M",
      "N", "O", "P", "Q", "R", "S", "T", "U", "V", "W", "X", "Y", "Z", "[", "\\", "]",
      "^", "_", "a", "b", "c", "d", "e", "f", "g", "h", "i", "j", "k", "l", "m", "n",
      "o", "p", "q", "r", "s", "t", "u", "v", "w", "x", "y", "z">>

CodeUnit(c) == CHOOSE i \in 1..Len(CodeUnits) : CodeUnits[i] = c

StringLess(a, b) ==
    \E k \in 1..(Len(b)) :
        /\ \A i \in 1..(k - 1) : i <= Len(a) /\ a[i] = b[i]
        /\ \/ k = Len(a) + 1
           \/ k <= Len(a) /\ CodeUnit(a[k]) < CodeUnit(b[k])

RECURSIVE SortStrings(_)
SortStrings(S) ==
    IF S = {} THEN << >>
    ELSE LET least == CHOOSE x \in S : \A y \in S \ {x} : StringLess(x, y)
         IN  <<least>> \o SortStrings(S \ {least})

Range(seq) == {seq[i] : i \in 1..Len(seq)}

(***************************************************************************)
(* Translation of Java type names to TypeScript type names.                *)
(***************************************************************************)
\* An object literal is a function from its own keys to their values.
Dict(pairs) == [k \in {pr[1] : pr \in pairs} |-> (CHOOSE pr \in pairs : pr[1] = k)[2]]

\* What converting an inherited Object.prototype member to a string gives.
InheritedMember == <<"f", "u", "n", "c", "t", "i", "o", "n">>

\* object[key], for a key that `key in object` accepts.
Lookup(object, key) == IF key \in DOMAIN object THEN object[key] ELSE InheritedMember

RECURSIVE Repeat(_, _)
Repeat(s, n) == IF n = 0 THEN << >> ELSE s \o Repeat(s, n - 1)

RECURSIVE LeadingBrackets(_)
LeadingBrackets(s) ==
    IF s # << >> /\ Head(s) = "[" THEN 1 + LeadingBrackets(Tail(s)) ELSE 0

jniAbbreviations ==
    Dict({<<<<"B">>, <<"b", "y", "t", "e">>>>,
          <<<<"C">>, <<"c", "h", "a", "r">>>>,
          <<<<"D">>, <<"d", "o", "u", "b", "l", "e">>>>,
          <<<<"F">>, <<"f", "l", "o", "a", "t">>>>,
          <<<<"I">>, <<"i", "n", "t">>>>,
          <<<<"J">>, <<"l", "o", "n", "g">>>>,
          <<<<"S">>, <<"s", "h", "o", "r", "t">>>>,
          <<<<"Z">>, <<"b", "o", "o", "l", "e", "a", "n">>>>})

\* The result of jniDecodeType, and whether stackTrace() aborted the process
\* because JNI notation was met where it was not expected.
jniDecodeType(javaTypeName, encodedTypes) ==
    LET dims     == LeadingBrackets(javaTypeName)
        stripped == SubSeq(javaTypeName, dims + 1, Len(javaTypeName))
        isObject == /\ Len(stripped) >= 2
                    /\ stripped[1] = "L"
                    /\ stripped[Len(stripped)] = ";"
        inner    == IF isObject THEN SubSeq(stripped, 2, Len(stripped) - 1) ELSE stripped
        isAbbrev == HasProperty(DOMAIN jniAbbreviations, inner)
    IN  [typeName |-> IF isAbbrev THEN Lookup(jniAbbreviations, inner) ELSE inner,
         ext      |-> Repeat(<<"[", "]">>, dims),
         aborted  |-> ~encodedTypes /\ (dims > 0 \/ isObject \/ isAbbrev)]

primitiveToObjectMap ==
    Dict({<<<<"b", "y", "t", "e">>, JavaLangObject>>,
          <<<<"c", "h", "a", "r">>, JavaLangObject>>,
          <<<<"b", "o", "o", "l", "e", "a", "n">>, <<"j", "a", "v", "a", ".", "l", "a", "n", "g", ".", "B", "o", "o", "l", "e", "a", "n">>>>,
          <<<<"s", "h", "o", "r", "t">>, <<"j", "a", "v", "a", ".", "l", "a", "n", "g", ".", "S", "h", "o", "r", "t">>>>,
          <<<<"l", "o", "n", "g">>, JavaLangLong>>,
          <<<<"i", "n", "t">>, JavaLangInteger>>,
          <<<<"f", "l", "o", "a", "t">>, <<"j", "a", "v", "a", ".", "l", "a", "n", "g", ".", "F", "l", "o", "a", "t">>>>,
          <<<<"d", "o", "u", "b", "l", "e">>, <<"j", "a", "v", "a", ".", "l", "a", "n", "g", ".", "D", "o", "u", "b", "l", "e">>>>})

boxIfJavaPrimitive(typeName) ==
    IF HasProperty(DOMAIN primitiveToObjectMap, typeName)
    THEN Lookup(primitiveToObjectMap, typeName)
    ELSE typeName

\* The result of mapUnhandledTypesToJavaLangObject, the name it adds to
\* unhandledTypes, and whether isIncludedClass threw on an unknown name.
\* Mutant: the type is recorded as unhandled and its name is kept.
mapUnhandledTypesToJavaLangObject_KeepName(typeName) ==
    IF typeName = <<"v", "o", "i", "d">>
        THEN [typeName |-> typeName, unhandled |-> {}, threw |-> FALSE]
    ELSE IF classNameOnlyThrows(typeName)
        THEN [typeName |-> typeName, unhandled |-> {}, threw |-> TRUE]
    ELSE IF ~isIncludedClass(typeName)
        THEN [typeName |-> typeName, unhandled |-> {typeName}, threw |-> FALSE]
    ELSE [typeName |-> typeName, unhandled |-> {}, threw |-> FALSE]

mapUnhandledTypesToJavaLangObject(typeName) ==
    IF typeName = <<"v", "o", "i", "d">>
        THEN [typeName |-> typeName, unhandled |-> {}, threw |-> FALSE]
    ELSE IF classNameOnlyThrows(typeName)
        THEN [typeName |-> typeName, unhandled |-> {}, threw |-> TRUE]
    ELSE IF ~isIncludedClass(typeName)
        THEN [typeName |-> JavaLangObject, unhandled |-> {typeName}, threw |-> FALSE]
    ELSE [typeName |-> typeName, unhandled |-> {}, threw |-> FALSE]

\* Mutant: the table of the input context, whatever the context.
javaTypeToTypescriptType_InputOnly(context) ==
    Dict({<<<<"v", "o", "i", "d">>, <<"v", "o", "i", "d">>>>,
          <<<<"j", "a", "v", "a", ".", "l", "a", "n", "g", ".", "B", "o", "o", "l", "e", "a", "n">>, <<"b", "o", "o", "l", "e", "a", "n", "_", "t">>>>,
          <<<<"j", "a", "v", "a", ".", "l", "a", "n", "g", ".", "D", "o", "u", "b", "l", "e">>, <<"d", "o", "u", "b", "l", "e", "_", "t">>>>,
          <<<<"j", "a", "v", "a", ".", "l", "a", "n", "g", ".", "F", "l", "o", "a", "t">>, <<"f", "l", "o", "a", "t", "_", "t">>>>,
          <<JavaLangInteger, <<"i", "n", "t", "e", "g", "e", "r", "_", "t">>>>,
          <<JavaLangLong, <<"l", "o", "n", "g", "_", "t">>>>,
          <<JavaLangNumber, <<"n", "u", "m", "b", "e", "r", "_", "t">>>>,
          <<JavaLangObject, <<"o", "b", "j", "e", "c", "t", "_", "t">>>>,
          <<<<"j", "a", "v", "a", ".", "l", "a", "n", "g", ".", "S", "h", "o", "r", "t">>, <<"s", "h", "o", "r", "t", "_", "t">>>>,
          <<JavaLangString, <<"s", "t", "r", "i", "n", "g", "_", "t">>>>})

javaTypeToTypescriptType(context) ==
    LET eInput == context = "eInput"
    IN  Dict({<<<<"v", "o", "i", "d">>, <<"v", "o", "i", "d">>>>,
              <<<<"j", "a", "v", "a", ".", "l", "a", "n", "g", ".", "B", "o", "o", "l", "e", "a", "n">>, IF eInput THEN <<"b", "o", "o", "l", "e", "a", "n", "_", "t">> ELSE <<"b", "o", "o", "l", "e", "a", "n">>>>,
              <<<<"j", "a", "v", "a", ".", "l", "a", "n", "g", ".", "D", "o", "u", "b", "l", "e">>, IF eInput THEN <<"d", "o", "u", "b", "l", "e", "_", "t">> ELSE <<"n", "u", "m", "b", "e", "r">>>>,
              <<<<"j", "a", "v", "a", ".", "l", "a", "n", "g", ".", "F", "l", "o", "a", "t">>, IF eInput THEN <<"f", "l", "o", "a", "t", "_", "t">> ELSE <<"n", "u", "m", "b", "e", "r">>>>,
              <<JavaLangInteger, IF eInput THEN <<"i", "n", "t", "e", "g", "e", "r", "_", "t">> ELSE <<"n", "u", "m", "b", "e", "r">>>>,
              <<JavaLangLong, IF eInput THEN <<"l", "o", "n", "g", "_", "t">> ELSE <<"l", "o", "n", "g", "V", "a", "l", "u", "e", "_", "t">>>>,
              <<JavaLangNumber, IF eInput THEN <<"n", "u", "m", "b", "e", "r", "_", "t">> ELSE <<"n", "u", "m", "b", "e", "r">>>>,
              <<JavaLangObject, IF eInput THEN <<"o", "b", "j", "e", "c", "t", "_", "t">> ELSE <<"o", "b", "j", "e", "c", "t", "_", "t">>>>,
              <<<<"j", "a", "v", "a", ".", "l", "a", "n", "g", ".", "S", "h", "o", "r", "t">>, IF eInput THEN <<"s", "h", "o", "r", "t", "_", "t">> ELSE <<"n", "u", "m", "b", "e", "r">>>>,
              <<JavaLangString, IF eInput THEN <<"s", "t", "r", "i", "n", "g", "_", "t">> ELSE <<"s", "t", "r", "i", "n", "g">>>>})

mapJavaPrimitivesToTypescript(typeName, context) ==
    IF HasProperty(DOMAIN javaTypeToTypescriptType(context), typeName)
    THEN Lookup(javaTypeToTypescriptType(context), typeName)
    ELSE typeName

JavaNamespace == <<"J", "a", "v", "a", ".">>

\* assert.ok(this.isIncludedClass(typeName)) is the caller's obligation.
\* Mutant: the simple name is used whether or not the map gives it to
\* this class.
getJavaAliasName_AlwaysShort(className) == JavaNamespace \o shortClassName(className)

getJavaAliasName(className) ==
    LET shortName == shortClassName(className)
        map       == shortToLongNameMap.map
    IN  JavaNamespace \o (IF shortName \in DOMAIN map /\ map[shortName] = className
                              THEN shortName ELSE className)

\* Mutant: an array parameter is rendered like an array result.
handleArrays_LikeReturn(typeName, ext, context) ==
    [typeName |-> typeName \o ext, unhandled |-> {}]

\* The "Handle arrays" part of tsTypeName.
handleArrays(typeName, ext, context) ==
    IF ext = << >>
        THEN [typeName |-> typeName, unhandled |-> {}]
    ELSE IF context = "eReturn"
        THEN [typeName |-> typeName \o ext, unhandled |-> {}]
    ELSE IF ext = <<"[", "]">>
        THEN [typeName |-> <<"a", "r", "r", "a", "y", "_", "t", "<">> \o typeName \o <<">">>, unhandled |-> {}]
    ELSE [typeName |-> <<"v", "o", "i", "d">>, unhandled |-> {typeName \o ext}]

\* "Finally, convert Java primitive types to TypeScript" and the branch on
\* isIncludedClass that follows it, for the name typeName that
\* mapUnhandledTypesToJavaLangObject returned and the name mapped that
\* mapJavaPrimitivesToTypescript made of it.
tsScalarTypeName(typeName, mapped) ==
    IF mapped # typeName \/ typeName = <<"v", "o", "i", "d">>
        THEN [typeName |-> mapped, unhandled |-> {}]
    ELSE IF isIncludedClass(typeName)
        THEN [typeName |-> getJavaAliasName(typeName), unhandled |-> {}]
    ELSE [typeName |-> <<"a", "n", "y">>, unhandled |-> {typeName}]

\* The end of tsTypeName: "Handle arrays" and the return.
tsTypeNameArray(handled, scalar, ext, context) ==
    LET array == handleArrays(scalar.typeName, ext, context)
    IN  [outcome   |-> "return",
         typeName  |-> array.typeName,
         unhandled |-> handled.unhandled \cup scalar.unhandled \cup array.unhandled]

\* tsTypeName from the result handled of mapUnhandledTypesToJavaLangObject(boxed).
tsTypeNameBoxed(boxed, handled, ext, context) ==
    IF handled.threw
        THEN [outcome |-> "throw", kind |-> "is not a known className", name |-> boxed,
              unhandled |-> {}]
    ELSE tsTypeNameArray(handled,
                         tsScalarTypeName(handled.typeName,
                                          mapJavaPrimitivesToTypescript(handled.typeName, context)),
                         ext, context)

\* tsTypeName from the result decoded of jniDecodeType.
tsTypeNameDecoded(javaTypeName, decoded, context) ==
    IF decoded.aborted
        THEN [outcome |-> "abort", kind |-> "abort", name |-> javaTypeName,
              unhandled |-> {}]
    ELSE LET boxed == boxIfJavaPrimitive(decoded.typeName)
         IN  tsTypeNameBoxed(boxed, mapUnhandledTypesToJavaLangObject(boxed),
                             decoded.ext, context)

\* tsTypeName(javaTypeName, context, encodedTypes): the TypeScript name it
\* returns, the names it adds to unhandledTypes, and how it ends otherwise:
\* aborted by stackTrace(), or thrown out of by classNameOnly.
tsTypeName(javaTypeName, context, encodedTypes) ==
    tsTypeNameDecoded(javaTypeName, jniDecodeType(javaTypeName, encodedTypes), context)

tsTypeNameInputEncoded(javaTypeName) == tsTypeName(javaTypeName, "eInput", TRUE)

(***************************************************************************)
(* Translation of generic type strings.                                    *)
(***************************************************************************)
\* s.indexOf(sub, from), counting from 1; 0 when sub does not occur.
IndexOf(s, sub, from) ==
    LET hits == {i \in from..(Len(s) - Len(sub) + 1) : SubSeq(s, i, i + Len(sub) - 1) = sub}
    IN  IF hits = {} THEN 0 ELSE CHOOSE i \in hits : \A j \in hits : i <= j

\* s.replace(sub, by) with a string pattern: the first occurrence only.
ReplaceFirst(s, sub, by) ==
    LET i == IndexOf(s, sub, 1)
    IN  IF i = 0 THEN s
        ELSE SubSeq(s, 1, i - 1) \o by \o SubSeq(s, i + Len(sub), Len(s))

\* s.replace(/c/g, by)
RECURSIVE ReplaceAll(_, _, _)
ReplaceAll(s, c, by) ==
    IF s = << >> THEN << >>
    ELSE (IF Head(s) = c THEN by ELSE <<Head(s)>>) \o ReplaceAll(Tail(s), c, by)

\* s.split(c)
RECURSIVE Split(_, _)
Split(s, c) ==
    LET i == IndexOf(s, <<c>>, 1)
    IN  IF i = 0 THEN <<s>>
        ELSE <<SubSeq(s, 1, i - 1)>> \o Split(SubSeq(s, i + 1, Len(s)), c)

\* parts.join(sep)
RECURSIVE Join(_, _)
Join(parts, sep) ==
    IF parts = << >> THEN << >>
    ELSE IF Len(parts) = 1 THEN parts[1]
    ELSE parts[1] \o sep \o Join(Tail(parts), sep)

\* s.trim()
RECURSIVE Trim(_)
Trim(s) ==
    IF s # << >> /\ Head(s) = " " THEN Trim(Tail(s))
    ELSE IF s # << >> /\ s[Len(s)] = " " THEN Trim(SubSeq(s, 1, Len(s) - 1))
    ELSE s

\* /^\w+$/
isSimpleName(s) == s # << >> /\ \A i \in 1..Len(s) : IsWordChar(s[i])

translateIfPrimitiveType(s, context) ==
    LET translated == boxIfJavaPrimitive(s)
    IN  IF translated # s THEN mapJavaPrimitivesToTypescript(translated, context)
        ELSE translated

\* The class [\w\$\.]
IsPathChar(c) == IsWordChar(c) \/ c \in {"$", "."}

\* The end of the run of [\w\$\.] that starts at i.
PathEnd(s, i) ==
    CHOOSE j \in i..Len(s) :
        /\ \A k \in i..j : IsPathChar(s[k])
        /\ j = Len(s) \/ ~IsPathChar(s[j + 1])

\* isExcludedClass(className): its result, or that it throws.
isExcludedClass(className) ==
    LET name == StripGenericList(className)
    IN  IF name \in allExcludedClasses THEN [outcome |-> "return", value |-> TRUE]
        ELSE IF name \notin allClasses THEN [outcome |-> "throw", name |-> name]
        ELSE [outcome |-> "return", value |-> FALSE]

\* The body of the while loop of translateFullClassPathsToShortAlias for one
\* match, after fixGenericNestedTypeName: the name that takes its place, or
\* how isIncludedClass, isExcludedClass or the assertion throws.
translateClassPath(name) ==
    IF isSimpleName(name)
        THEN [outcome |-> "return", value |-> translateIfPrimitiveType(name, "eInput")]
    ELSE IF classNameOnlyThrows(name)
        THEN [outcome |-> "throw", kind |-> "is not a known className", name |-> name]
    ELSE IF isIncludedClass(name)
        THEN [outcome |-> "return", value |-> getJavaAliasName(name)]
    ELSE IF isExcludedClass(name).outcome = "throw"
        THEN [outcome |-> "throw", kind |-> "is not a known className", name |-> name]
    ELSE IF ~isExcludedClass(name).value
        THEN [outcome |-> "throw", kind |-> "AssertionError", name |-> name]
    ELSE [outcome |-> "return", value |-> <<"a", "n", "y">>]

\* The while loop of translateFullClassPathsToShortAlias, with re.lastIndex
\* at `from` - 1: each match of /[\w\$\.]+/g is translated and the first
\* occurrence of its text is replaced.
RECURSIVE ScanClassPaths(_, _)

\* translated.replace(name, tname) for the match name that ends at j, and
\* the rest of the loop.
ScanReplaced(translated, name, j, tname) ==
    IF tname.outcome # "return" THEN tname
    ELSE ScanClassPaths(ReplaceFirst(translated, name, tname.value),
                        j + 1 - (Len(name) - Len(tname.value)))

ScanClassPaths(translated, from) ==
    LET starts == {i \in from..Len(translated) : IsPathChar(translated[i])}
    IN  IF starts = {} THEN [outcome |-> "return", value |-> translated]
        ELSE
        LET i    == CHOOSE x \in starts : \A y \in starts : x <= y
            j    == PathEnd(translated, i)
            name == SubSeq(translated, i, j)
        IN  ScanReplaced(translated, name, j,
                         translateClassPath(fixGenericNestedTypeName(name)))

translateFullClassPathsToShortAlias(javaGenericType) ==
    ScanClassPaths(javaGenericType, 1)

\* The three characters that stand in for < > and ", " while nested lists
\* are translated (U+00AB, U+00BB and U+2021 in the source).
LeftQuote  == "laquo"
RightQuote == "raquo"
Dagger     == "ddagger"

\* One type argument of a list: trimmed, "? extends " removed, and any
\* argument that still starts with ? replaced by any.
TypeArgument(part) ==
    LET trimmed == Trim(part)
        bounded == ReplaceFirst(trimmed, <<"?", " ", "e", "x", "t", "e", "n", "d", "s", " ">>, << >>)
    IN  IF bounded # << >> /\ bounded[1] = "?" THEN <<"a", "n", "y">> ELSE bounded

\* The match of /([\w\$\.]+)<([^<>]+)>/g at or after `from`: the positions
\* of its start, of its < and of its >; or none.
GenericListMatch(s, from) ==
    LET opens == {a \in (from + 1)..Len(s) :
                    /\ s[a] = "<"
                    /\ IsPathChar(s[a - 1])
                    /\ \E b \in (a + 2)..Len(s) :
                            /\ s[b] = ">"
                            /\ \A k \in (a + 1)..(b - 1) : s[k] \notin {"<", ">"}}
    IN  IF opens = {} THEN [found |-> FALSE]
        ELSE LET a == CHOOSE x \in opens : \A y \in opens : x <= y
                 b == CHOOSE x \in (a + 2)..Len(s) :
                        /\ s[x] = ">"
                        /\ \A k \in (a + 1)..(x - 1) : s[k] \notin {"<", ">"}
                 p == CHOOSE x \in from..(a - 1) :
                        /\ \A k \in x..(a - 1) : IsPathChar(s[k])
                        /\ x = from \/ ~IsPathChar(s[x - 1])
             IN  [found |-> TRUE, start |-> p, open |-> a, close |-> b]

\* The two nested while loops of translateGenericTypeLists: `from` - 1 is
\* re.lastIndex, and done is false once the current pass has matched.
RECURSIVE GenericListPasses(_, _, _)

\* One turn of the inner loop, for the result m of re.exec(translated).
GenericListPass(translated, m, done) ==
    IF ~m.found
        THEN IF done THEN translated ELSE GenericListPasses(translated, 1, TRUE)
    ELSE
    LET whole   == SubSeq(translated, m.start, m.close)
        owner   == SubSeq(translated, m.start, m.open - 1)
        parts   == Split(SubSeq(translated, m.open + 1, m.close - 1), ",")
        args    == [i \in 1..Len(parts) |-> TypeArgument(parts[i])]
        reconstructed ==
            IF owner = <<"a", "n", "y">> THEN <<"a", "n", "y">>
            ELSE owner \o <<LeftQuote>> \o Join(args, <<Dagger>>) \o <<RightQuote>>
    IN  GenericListPasses(ReplaceFirst(translated, whole, reconstructed),
                          m.close + 1 - (Len(whole) - Len(reconstructed)), FALSE)

GenericListPasses(translated, from, done) ==
    GenericListPass(translated, GenericListMatch(translated, from), done)

translateGenericTypeLists(javaGenericType) ==
    IF IndexOf(javaGenericType, <<"<">>, 1) = 0 THEN javaGenericType
    ELSE ReplaceAll(ReplaceAll(ReplaceAll(GenericListPasses(javaGenericType, 1, TRUE),
                                          LeftQuote, <<"<">>),
                               RightQuote, <<">">>),
                    Dagger, <<",", " ">>)

\* The match of /^([^\[]+)(\[\])+$/: the length of group 1 and the text of
\* group 2, which is the last repetition of the group.
ArraySuffixMatch(s) ==
    LET first == IndexOf(s, <<"[">>, 1)
        rest  == SubSeq(s, first, Len(s))
    IN  IF /\ first > 1
           /\ Len(rest) % 2 = 0
           /\ rest = Repeat(<<"[", "]">>, Len(rest) \div 2)
        THEN [found |-> TRUE, element |-> SubSeq(s, 1, first - 1), last |-> <<"[", "]">>]
        ELSE [found |-> FALSE]

\* The end of translateGenericType: translateGenericTypeLists on what
\* translateFullClassPathsToShortAlias returned, and m[2] appended.
translateGenericTypeEnd(translated, suffix) ==
    IF translated.outcome # "return" THEN translated
    ELSE [outcome |-> "return",
          value   |-> translateGenericTypeLists(translated.value) \o suffix]

\* translateGenericType for the result m of javaGenericType.match(...).
translateGenericTypeMatched(javaGenericType, m) ==
    translateGenericTypeEnd(
        translateFullClassPathsToShortAlias(IF m.found THEN m.element ELSE javaGenericType),
        IF m.found THEN m.last ELSE << >>)

translateGenericType(javaGenericType) ==
    translateGenericTypeMatched(javaGenericType, ArraySuffixMatch(javaGenericType))

(***************************************************************************)
(* Generic method prototypes.                                              *)
(***************************************************************************)
ProtoModifiers ==
    <<<<"a", "b", "s", "t", "r", "a", "c", "t", " ">>,
      <<"d", "e", "f", "a", "u", "l", "t", " ">>,
      <<"f", "i", "n", "a", "l", " ">>,
      <<"n", "a", "t", "i", "v", "e", " ">>,
      <<"p", "u", "b", "l", "i", "c", " ">>,
      <<"s", "t", "a", "t", "i", "c", " ">>,
      <<"s", "y", "n", "c", "h", "r", "o", "n", "i", "z", "e", "d", " ">>>>

\* tmp.replace(word, '') for each modifier in turn: its first occurrence.
RECURSIVE RemoveEach(_, _)
RemoveEach(tmp, words) ==
    IF words = << >> THEN tmp
    ELSE RemoveEach(ReplaceFirst(tmp, Head(words), << >>), Tail(words))

\* tmp.replace(/ throws .*$/, '')
RemoveThrows(tmp) ==
    LET i == IndexOf(tmp, <<" ", "t", "h", "r", "o", "w", "s", " ">>, 1)
    IN  IF i = 0 THEN tmp ELSE SubSeq(tmp, 1, i - 1)

\* The end of a match of (<[, \w]+>) at the start of tmp, or 0.
GenTypesEnd(tmp) ==
    LET close == IndexOf(tmp, <<">">>, 1)
    IN  IF /\ tmp # << >>
           /\ tmp[1] = "<"
           /\ close >= 3
           /\ \A k \in 2..(close - 1) : IsWordChar(tmp[k]) \/ tmp[k] \in {",", " "}
        THEN close ELSE 0

\* ([\.\$\w]+)\( matches at p: the position of the parenthesis, or 0.
NameThenParen(tmp, p) ==
    IF p <= Len(tmp) /\ IsPathChar(tmp[p]) /\ PathEnd(tmp, p) < Len(tmp)
          /\ tmp[PathEnd(tmp, p) + 1] = "("
    THEN PathEnd(tmp, p) + 1 ELSE 0

\* The rest of the pattern, (?:(.*) )?([\.\$\w]+)\((.*)\)$, matched from g on
\* a string that ends in ): the optional group is tried first and its .* is
\* as long as it can be, so the name starts after the last space that a name
\* and a parenthesis follow.
\* The match whose name starts at p and whose ( is at paren; paren is 0
\* when no name and parenthesis start at p.
ParseAt(tmp, g, p, paren) ==
    IF paren = 0 THEN [found |-> FALSE]
    ELSE [found   |-> TRUE,
          returns |-> IF p = g THEN << >> ELSE SubSeq(tmp, g, p - 2),
          name    |-> SubSeq(tmp, p, paren - 1),
          params  |-> SubSeq(tmp, paren + 1, Len(tmp) - 1)]

ParseFrom(tmp, g) ==
    LET afterSpace == {p \in (g + 1)..Len(tmp) :
                            tmp[p - 1] = " " /\ NameThenParen(tmp, p) > 0}
        p == IF afterSpace # {}
                THEN CHOOSE x \in afterSpace : \A y \in afterSpace : y <= x
                ELSE g
    IN  ParseAt(tmp, g, p, NameThenParen(tmp, p))

\* Of the match with the group (<[, \w]+>) and the match without it, the
\* one the regular expression engine finds first.
ParseEither(tmp, g, withG, without) ==
    IF tmp = << >> \/ tmp[Len(tmp)] # ")" THEN [found |-> FALSE]
    ELSE IF g > 0 /\ withG.found
        THEN [found |-> TRUE, gentypes |-> SubSeq(tmp, 1, g), returns |-> withG.returns,
              name |-> withG.name, params |-> withG.params]
    ELSE IF without.found
        THEN [found |-> TRUE, gentypes |-> << >>, returns |-> without.returns,
              name |-> without.name, params |-> without.params]
    ELSE [found |-> FALSE]

\* tmp.match(/^(<[, \w]+>)?(?:(.*) )?([\.\$\w]+)\((.*)\)$/)
ParseProto(tmp) ==
    LET g == GenTypesEnd(tmp)
    IN  ParseEither(tmp, g, ParseFrom(tmp, g + 1), ParseFrom(tmp, 1))

\* Split at the commas that no space follows.
RECURSIVE splitParams(_)
splitParams(s) ==
    LET hits == {i \in 1..(Len(s) - 1) : s[i] = "," /\ s[i + 1] # " "}
    IN  IF s = << >> THEN << >>
        ELSE IF hits = {} THEN <<s>>
        ELSE LET i == CHOOSE x \in hits : \A y \in hits : x <= y
             IN  <<SubSeq(s, 1, i - 1)>> \o splitParams(SubSeq(s, i + 1, Len(s)))

\* The ParsedPrototype made of the groups of the match.
ParsedPrototype(parse) ==
    LET path == Split(parse.name, ".")
    IN  [methodName |-> Trim(path[Len(path)]),
         gentypes   |-> Trim(parse.gentypes),
         returns    |-> Trim(IF parse.returns = << >> THEN <<"v", "o", "i", "d">>
                             ELSE parse.returns),
         params     |-> splitParams(parse.params)]

\* The two assertions of translateGenericProto and its return, for the
\* stripped prototype tmp and the result parse of tmp.match(...).
translateGenericProtoParsed(generic_proto, tmp, parse) ==
    IF tmp = << >> \/ tmp[Len(tmp)] # ")"
        THEN [outcome |-> "throw", kind |-> "AssertionError", name |-> generic_proto]
    ELSE IF ~parse.found
        THEN [outcome |-> "throw", kind |-> "AssertionError", name |-> generic_proto]
    ELSE [outcome |-> "return", value |-> ParsedPrototype(parse)]

\* Mutant: a prototype the pattern does not match is returned as a name
\* without parameters.
translateGenericProto_Guess(generic_proto) ==
    LET tmp  == RemoveThrows(RemoveEach(generic_proto, ProtoModifiers))
        done == translateGenericProtoParsed(generic_proto, tmp, ParseProto(tmp))
    IN  IF done.outcome = "throw"
            THEN [outcome |-> "return",
                  value   |-> [methodName |-> Trim(tmp), gentypes |-> << >>,
                               returns |-> <<"v", "o", "i", "d">>, params |-> << >>]]
        ELSE done

\* translateGenericProto(generic_proto): the ParsedPrototype, or the
\* AssertionError of one of its two assertions.
translateGenericProto(generic_proto) ==
    LET tmp == RemoveThrows(RemoveEach(generic_proto, ProtoModifiers))
    IN  translateGenericProtoParsed(generic_proto, tmp, ParseProto(tmp))

(***************************************************************************)
(* Methods and signatures.                                                 *)
(***************************************************************************)
Primitives ==
    {<<<<"b", "o", "o", "l", "e", "a", "n">>, "Z">>,
     <<<<"b", "y", "t", "e">>, "B">>,
     <<<<"c", "h", "a", "r">>, "C">>,
     <<<<"d", "o", "u", "b", "l", "e">>, "D">>,
     <<<<"f", "l", "o", "a", "t">>, "F">>,
     <<<<"i", "n", "t">>, "I">>,
     <<<<"l", "o", "n", "g">>, "J">>,
     <<<<"s", "h", "o", "r", "t">>, "S">>,
     <<<<"v", "o", "i", "d">>, "V">>}

\* Class.getCanonicalName() of a top-level or member class.
CanonicalName(name) == ReplaceChar(name, "$", ".")

typeEncoding(name) ==
    LET encoding ==
            IF \E pr \in Primitives : pr[1] = name
                THEN <<(CHOOSE pr \in Primitives : pr[1] = name)[2]>>
            ELSE IF name[1] = "["
                THEN name
            ELSE <<"L">> \o CanonicalName(name) \o <<";">>
    IN  ReplaceChar(encoding, ".", "/")

RECURSIVE JoinEncodings(_)
JoinEncodings(types) ==
    IF types = << >> THEN << >>
    ELSE typeEncoding(Head(types)) \o JoinEncodings(Tail(types))

methodSignature(method) ==
    method.name \o <<"(">> \o JoinEncodings(method.paramTypes) \o <<")">>
        \o typeEncoding(method.returnType)

\* Method.toGenericString() of a public method without type parameters.
toGenericString(method) ==
    <<"p", "u", "b", "l", "i", "c", " ">> \o method.returnType \o <<" ">> \o method.declaringClass \o <<".">>
        \o method.name \o <<"(">> \o Join(method.paramTypes, <<",">>) \o <<")">>

\* The methods reflection can report, and the parsed prototype of each (it
\* depends on nothing but the method).
ReflectedMethods == UNION {Reflect(c).methods : c \in ClassUniverse}

ParsedPrototypes ==
    [method \in ReflectedMethods |-> translateGenericProto(toGenericString(method))]

\* The calls mapMethod makes, in its order: translateGenericProto, tsTypeName
\* and translateGenericType for the return type, translateGenericType for
\* each parameter type, and tsTypeNameInputEncoded for each.
mapMethodCalls(method) ==
    <<ParsedPrototypes[method],
      tsTypeName(method.returnType, "eReturn", TRUE),
      translateGenericType(method.returnType)>>
        \o [i \in 1..Len(method.paramTypes) |-> translateGenericType(method.paramTypes[i])]
        \o [i \in 1..Len(method.paramTypes) |-> tsTypeNameInputEncoded(method.paramTypes[i])]

\* The first of the calls of one mapMethod that throws, or 0.
mapMethodFailure(calls) ==
    LET bad == {i \in 1..Len(calls) : calls[i].outcome # "return"}
    IN  IF bad = {} THEN 0 ELSE CHOOSE i \in bad : \A j \in bad : i <= j

\* What the calls before the n-th add to unhandledTypes.
mapMethodUnhandled(calls, n) ==
    UNION {calls[i].unhandled :
             i \in {k \in 1..(n - 1) : "unhandled" \in DOMAIN calls[k]}}

\* The MethodDefinition mapMethod returns when none of its calls throws.
MethodDefinition(method, calls) ==
    LET n == Len(method.paramTypes)
    IN  [name                |-> method.name,
         declared            |-> method.declaringClass,
         returns             |-> method.returnType,
         tsReturnsRegular    |-> calls[2].typeName,
         tsGenericReturns    |-> calls[3].value,
         paramTypes          |-> method.paramTypes,
         tsParamTypes        |-> [i \in 1..n |-> calls[3 + n + i].typeName],
         tsGenericParamTypes |-> [i \in 1..n |-> calls[3 + i].value],
         generic_proto       |-> toGenericString(method),
         ts_generic_proto    |-> calls[1].value,
         signature           |-> methodSignature(method)]

mapMethod(method) == MethodDefinition(method, mapMethodCalls(method))

\* Mutant: only the methods the class declares itself (getDeclaredMethods).
mapClassMethods_DeclaredOnly(className) ==
    {mapMethod(m) : m \in {x \in Reflect(className).methods : x.declaringClass = className}}

mapClassMethods(className) == {mapMethod(m) : m \in Reflect(className).methods}

\* name -> signature -> MethodDefinition
groupMethods(flatList) ==
    [name \in {m.name : m \in flatList} |->
        [sig \in {m.signature : m \in {x \in flatList : x.name = name}} |->
            CHOOSE m \in flatList : m.name = name /\ m.signature = sig]]

(***************************************************************************)
(* Ancestry of one class.                                                  *)
(***************************************************************************)
\* Mutant: the superclasses passed over are not recorded.
RECURSIVE SuperclassWalk_NoRecord(_, _)
SuperclassWalk_NoRecord(superclass, skipped) ==
    IF superclass = Null
        THEN [superclass |-> Null, skipped |-> skipped, threw |-> FALSE, unknown |-> Null]
    ELSE IF classNameOnlyThrows(superclass)
        THEN [superclass |-> Null, skipped |-> skipped, threw |-> TRUE,
              unknown |-> superclass]
    ELSE IF isIncludedClass(superclass)
        THEN [superclass |-> superclass, skipped |-> skipped, threw |-> FALSE,
              unknown |-> Null]
    ELSE SuperclassWalk_NoRecord(Reflect(superclass).superclass, skipped)

\* The while loop over getSuperclass(): the first included superclass, the
\* superclasses skipped on the way, and whether isIncludedClass threw.
RECURSIVE SuperclassWalk(_, _)
SuperclassWalk(superclass, skipped) ==
    IF superclass = Null
        THEN [superclass |-> Null, skipped |-> skipped, threw |-> FALSE, unknown |-> Null]
    ELSE IF classNameOnlyThrows(superclass)
        THEN [superclass |-> Null, skipped |-> skipped, threw |-> TRUE,
              unknown |-> superclass]
    ELSE IF isIncludedClass(superclass)
        THEN [superclass |-> superclass, skipped |-> skipped, threw |-> FALSE,
              unknown |-> Null]
    ELSE SuperclassWalk(Reflect(superclass).superclass, skipped \cup {superclass})

\* Mutant: an interface that is not included is recorded and dropped, and
\* its own interfaces are not looked at.
RECURSIVE ResolveFrom_NoRecurse(_, _, _)
ResolveFrom_NoRecurse(intfs, i, acc) ==
    IF acc.threw \/ i > Len(intfs) THEN acc
    ELSE LET intfName == intfs[i] IN
         IF classNameOnlyThrows(intfName)
             THEN [acc EXCEPT !.threw = TRUE, !.unknown = intfName]
         ELSE IF isIncludedClass(intfName)
             THEN ResolveFrom_NoRecurse(intfs, i + 1, [acc EXCEPT !.result = @ \cup {intfName}])
         ELSE ResolveFrom_NoRecurse(intfs, i + 1, [acc EXCEPT !.unhandled = @ \cup {intfName}])

\* resolveInterfaces over intfs[i..], in order; acc is what was gathered.
RECURSIVE ResolveFrom(_, _, _)
ResolveFrom(intfs, i, acc) ==
    IF acc.threw \/ i > Len(intfs) THEN acc
    ELSE LET intfName == intfs[i] IN
         IF classNameOnlyThrows(intfName)
             THEN [acc EXCEPT !.threw = TRUE, !.unknown = intfName]
         ELSE IF isIncludedClass(intfName)
             THEN ResolveFrom(intfs, i + 1, [acc EXCEPT !.result = @ \cup {intfName}])
         ELSE ResolveFrom(intfs, i + 1,
                          ResolveFrom(Reflect(intfName).interfaces, 1,
                                      [acc EXCEPT !.unhandled = @ \cup {intfName}]))

resolveInterfaces(clazz) ==
    ResolveFrom(Reflect(clazz).interfaces, 1,
                [result |-> {}, unhandled |-> {}, threw |-> FALSE, unknown |-> Null])

\* Mutant: nothing is pushed when no interface was resolved.
mapClassInterfaces_NoImplicitRoot(className, resolved) == resolved

\* The interfaces mapClassInterfaces returns, given what was resolved.
mapClassInterfaces(className, resolved) ==
    IF resolved = {} /\ className # JavaLangObject /\ Reflect(className).superclass = Null
    THEN {JavaLangObject}
    ELSE resolved

(***************************************************************************)
(* The merge of inherited overloads.                                       *)
(***************************************************************************)
Parents(table, intf) == IF intf \in DOMAIN table THEN Range(table[intf].interfaces) ELSE {}

\* interfacesTransitiveClosure: a Work seeded with the direct interfaces and
\* fed with the interfaces of every visited class.
RECURSIVE TransitiveClosure(_, _, _)
TransitiveClosure(table, todo, done) ==
    IF todo = {} THEN done
    ELSE LET intf == CHOOSE x \in todo : TRUE
         IN  TransitiveClosure(table, (todo \cup Parents(table, intf)) \ (done \cup {intf}),
                               done \cup {intf})

interfacesTransitiveClosure(table, directInterfaces) ==
    TransitiveClosure(table, Range(directInterfaces), {})

Max(S) == CHOOSE x \in S : \A y \in S : y <= x

Min(S) == CHOOSE x \in S : \A y \in S : x <= y

\* Mutant: the shallowest parent is taken instead of the deepest.
RECURSIVE interfaceDepth_MinParent(_, _, _)
interfaceDepth_MinParent(table, cache, intf) ==
    IF intf \in DOMAIN cache THEN cache[intf]
    ELSE LET parents == Parents(table, intf)
         IN  IF parents = {} THEN 0
             ELSE Min({interfaceDepth_MinParent(table, cache, parent) : parent \in parents}) + 1

RECURSIVE interfaceDepth(_, _, _)
interfaceDepth(table, cache, intf) ==
    IF intf \in DOMAIN cache THEN cache[intf]
    ELSE LET parents == Parents(table, intf)
         IN  IF parents = {} THEN 0
             ELSE Max({interfaceDepth(table, cache, parent) : parent \in parents}) + 1

\* Every order a sort by descending depth may leave the interfaces in.
RECURSIVE DescendingOrders(_, _, _)
DescendingOrders(table, cache, S) ==
    IF S = {} THEN {<< >>}
    ELSE LET deepest == Max({interfaceDepth(table, cache, x) : x \in S})
         IN  UNION {{<<x>> \o rest : rest \in DescendingOrders(table, cache, S \ {x})} :
                        x \in {y \in S : interfaceDepth(table, cache, y) = deepest}}

\* Mutant: existing keys keep their value (_.defaults instead of _.assign).
Assign_KeepExisting(target, source) ==
    [k \in DOMAIN target \cup DOMAIN source |->
        IF k \in DOMAIN target THEN target[k] ELSE source[k]]

\* _.assign(target, source)
Assign(target, source) ==
    [k \in DOMAIN target \cup DOMAIN source |->
        IF k \in DOMAIN source THEN source[k] ELSE target[k]]

\* Mutant: the loop over the interfaces is left after the first interface
\* whose variants changed the dictionary.
RECURSIVE MergeVariants_StopAfterChange(_, _, _, _, _)
MergeVariants_StopAfterChange(table, methodVariants, methodName, interfaces, i) ==
    IF i > Len(interfaces) THEN methodVariants
    ELSE LET intfVariantsDict == table[interfaces[i]].variantsDict
             merged == IF methodName \in DOMAIN intfVariantsDict
                          THEN Assign(methodVariants, intfVariantsDict[methodName])
                          ELSE methodVariants
         IN  IF merged # methodVariants THEN merged
             ELSE MergeVariants_StopAfterChange(table, methodVariants, methodName,
                                                interfaces, i + 1)

\* The inner loop for one method name: every interface of `interfaces`, in
\* order, that has the name assigns its variants.
RECURSIVE MergeVariants(_, _, _, _, _)
MergeVariants(table, methodVariants, methodName, interfaces, i) ==
    IF i > Len(interfaces) THEN methodVariants
    ELSE LET intfVariantsDict == table[interfaces[i]].variantsDict
         IN  MergeVariants(table,
                           IF methodName \in DOMAIN intfVariantsDict
                               THEN Assign(methodVariants, intfVariantsDict[methodName])
                               ELSE methodVariants,
                           methodName, interfaces, i + 1)

\* Mutant: the outer loop runs over the method names of the interfaces as
\* well, so a name the class does not have gets an entry.
mergeOverloadedVariants_AllNames(table, variantsDict, interfaces) ==
    [methodName \in DOMAIN variantsDict
                    \cup UNION {DOMAIN table[interfaces[i]].variantsDict :
                                    i \in 1..Len(interfaces)} |->
        MergeVariants(table,
                      IF methodName \in DOMAIN variantsDict THEN variantsDict[methodName]
                      ELSE << >>,
                      methodName, interfaces, 1)]

mergeOverloadedVariants(table, variantsDict, interfaces) ==
    [methodName \in DOMAIN variantsDict |->
        MergeVariants(table, variantsDict[methodName], methodName, interfaces, 1)]

(***************************************************************************)
(* Phase 4: analyzeIncludedClasses and mapClass.                           *)
(***************************************************************************)
MaxStackDepth == 8

\* Mutant: an inherited interface is mapped again although it is done.
NeedsMapping_Always(w, intfName) == TRUE

\* if (!work.alreadyDone(intfName))
\* Mutant: an inherited interface is never mapped from inside mapClass; it
\* is left to the worklist's own turn.
NeedsMapping_Never(w, intfName) == FALSE

NeedsMapping(w, intfName) == ~alreadyDone(w, intfName)

\* Mutant: only the explicitly configured classes are queued.
AnalysisSeeds_ConfiguredOnly == allClasses \cap options.classes

\* The names analyzeIncludedClasses queues: this.allClasses.forEach(addTodo)
AnalysisSeeds == allClasses

\* Mutant: the descriptor names the reflected superclass, in scope or not.
DescriptorSuperclass_Reflected(frame) == Reflect(frame.className).superclass

\* superclass: superclass === null ? null : superclass.getName()
DescriptorSuperclass(frame) == frame.superclass

\* Entering mapClass(className): getClass, the superclass walk, the direct
\* interfaces, up to the start of interfaces.forEach.  `w` is the Work as
\* the caller leaves it.
EnterMapClass(className, w) ==
    LET walk     == SuperclassWalk(Reflect(className).superclass, {})
        resolved == resolveInterfaces(className)
        sorted   == SortStrings(mapClassInterfaces(className, resolved.result))
        frame    == [className  |-> className,
                     superclass |-> walk.superclass,
                     interfaces |-> IF walk.superclass # Null
                                       THEN <<walk.superclass>> \o sorted ELSE sorted,
                     next       |-> 1]
    IN  /\ work' = w
        /\ UNCHANGED <<classes, interfaceDepthCache, unhandledTypes, step>>
        /\ IF Len(stack) >= MaxStackDepth
           THEN \* RangeError: Maximum call stack size exceeded
                /\ Throw("RangeError", className)
                /\ UNCHANGED <<stack, mapCalls, unhandledInterfaces, unhandledSuperClasses>>
           ELSE /\ mapCalls' = [mapCalls EXCEPT ![className] = @ + 1]
                /\ IF className \notin classCache
                   THEN \* getClass: java.lang.ClassNotFoundException
                        /\ Throw("ClassNotFoundException", className)
                        /\ UNCHANGED <<stack, unhandledInterfaces, unhandledSuperClasses>>
                   ELSE /\ unhandledSuperClasses' = unhandledSuperClasses \cup walk.skipped
                        /\ IF walk.threw
                           THEN /\ Throw("is not a known className", walk.unknown)
                                /\ UNCHANGED <<stack, unhandledInterfaces>>
                           ELSE /\ unhandledInterfaces' =
                                        unhandledInterfaces \cup resolved.unhandled
                                /\ IF resolved.threw
                                   THEN /\ Throw("is not a known className",
                                                 resolved.unknown)
                                        /\ UNCHANGED stack
                                   ELSE /\ UNCHANGED <<failed, error>>
                                        /\ stack' = Append(stack, frame)

\* var work = new Work(); allClasses.forEach(addTodo)
analyzeIncludedClasses ==
    /\ Phase = "analyzeIncludedClasses"
    /\ ~work.live
    /\ work' = [NewWork EXCEPT !.todo = AnalysisSeeds]
    /\ UNCHANGED <<confVars, wlVars, ctlVars, scanVars, setVars, snVars, stack, classes,
                   mapCalls, diagVars>>

\* work.forEach takes the next name and calls the visitor, which calls mapClass.
forEachVisit(className) ==
    /\ Phase = "analyzeIncludedClasses"
    /\ work.live
    /\ stack = << >>
    /\ className \in work.todo
    /\ EnterMapClass(className, work)
    /\ UNCHANGED <<confVars, wlVars, scanVars, setVars, snVars>>

\* One iteration of interfaces.forEach in the innermost mapClass: an
\* interface that is already done is passed over, any other is mapped now.
mapClassInherited ==
    /\ Phase = "analyzeIncludedClasses"
    /\ stack # << >>
    /\ LET top      == stack[Len(stack)]
           intfName == top.interfaces[top.next]
       IN  /\ top.next <= Len(top.interfaces)
           /\ IF NeedsMapping(work, intfName)
              THEN EnterMapClass(intfName, addTodo(work, intfName))
              ELSE /\ stack' = [stack EXCEPT ![Len(stack)].next = @ + 1]
                   /\ UNCHANGED <<work, classes, mapCalls, diagVars, ctlVars>>
    /\ UNCHANGED <<confVars, wlVars, scanVars, setVars, snVars>>

\* The ClassDefinition mapClass builds once its interfaces are mapped.
ClassMap(frame, interfaces) ==
    LET className == frame.className
        shortName == shortClassName(className)
        useAlias  == shortToLongNameMap.map[shortName] = className
        methods   == mapClassMethods(className)
    IN  [fullName     |-> className,
         shortName    |-> shortName,
         alias        |-> IF useAlias THEN shortName ELSE className,
         useAlias     |-> useAlias,
         superclass   |-> DescriptorSuperclass(frame),
         interfaces   |-> frame.interfaces,
         methods      |-> methods,
         variantsDict |-> mergeOverloadedVariants(classes, groupMethods(methods), interfaces)]

\* The calls that mapClassMethods makes for the methods of a class.
mapClassCalls(className) ==
    [m \in Reflect(className).methods |-> mapMethodCalls(m)]

\* The rest of mapClass for the frame top, where calls are the calls its
\* mapClassMethods makes, then its caller's classes[name] = ...;
\* setDone(name).
mapClassEnd(top, calls) ==
    LET closure == interfacesTransitiveClosure(classes, top.interfaces)
        cached  == IF Cardinality(closure) >= 2
                     THEN [x \in DOMAIN interfaceDepthCache \cup closure |->
                             interfaceDepth(classes, interfaceDepthCache, x)]
                     ELSE interfaceDepthCache
        methods == DOMAIN calls
        failing == {m \in methods : mapMethodFailure(calls[m]) > 0}
        allUnhandled ==
             UNION {mapMethodUnhandled(calls[x], Len(calls[x]) + 1) : x \in methods}
    IN  IF shortToLongNameMap.isNull
        THEN \* TypeError: cannot read property of null
             /\ Throw("TypeError", top.className)
             /\ UNCHANGED <<stack, work, classes, interfaceDepthCache, unhandledTypes>>
        ELSE IF failing # {}
        THEN \* mapClassMethods: a call of tsTypeName throws, after the
             \* methods that getMethods() lists before it were mapped
             /\ \E m \in failing, mapped \in SUBSET (methods \ failing) :
                  LET n == mapMethodFailure(calls[m])
                  IN  /\ Throw(calls[m][n].kind, calls[m][n].name)
                      /\ unhandledTypes' = unhandledTypes
                              \cup mapMethodUnhandled(calls[m], n)
                              \cup UNION {mapMethodUnhandled(calls[x], Len(calls[x]) + 1) :
                                              x \in mapped}
             /\ UNCHANGED <<stack, work, classes, interfaceDepthCache>>
        ELSE IF ~(closure \subseteq DOMAIN classes)
        THEN \* TypeError: cannot read property of undefined
             /\ Throw("TypeError", top.className)
             /\ unhandledTypes' = unhandledTypes \cup allUnhandled
             /\ UNCHANGED <<stack, work, classes, interfaceDepthCache>>
        ELSE /\ unhandledTypes' = unhandledTypes \cup allUnhandled
             /\ \E interfaces \in DescendingOrders(classes, interfaceDepthCache, closure) :
                  classes' = Put(classes, top.className, ClassMap(top, interfaces))
             /\ interfaceDepthCache' = cached
             /\ work' = setDone(work, top.className)
             /\ stack' = IF Len(stack) = 1 THEN << >>
                         ELSE [SubSeq(stack, 1, Len(stack) - 1)
                                  EXCEPT ![Len(stack) - 1].next = @ + 1]
             /\ UNCHANGED <<failed, error>>

\* The innermost mapClass returns or throws, once its interfaces are mapped.
mapClassReturn ==
    /\ Phase = "analyzeIncludedClasses"
    /\ stack # << >>
    /\ stack[Len(stack)].next > Len(stack[Len(stack)].interfaces)
    /\ mapClassEnd(stack[Len(stack)], mapClassCalls(stack[Len(stack)].className))
    /\ UNCHANGED <<confVars, wlVars, step, scanVars, setVars, snVars, mapCalls,
                   unhandledInterfaces, unhandledSuperClasses>>

\* work.forEach has drained the queue.
analyzeIncludedClassesReturn ==
    /\ Phase = "analyzeIncludedClasses"
    /\ work.live
    /\ stack = << >>
    /\ work.todo = {}
    /\ step' = step + 1
    /\ UNCHANGED <<confVars, wlVars, failed, error, scanVars, setVars, snVars, mapVars, diagVars>>

\* Java type names as Class.getName() gives them, and one name (x.U) that is
\* in no jar.
TypeNameQueries ==
    {<<"i", "n", "t">>,
     <<"l", "o", "n", "g">>,
     <<"v", "o", "i", "d">>,
     <<"j", "a", "v", "a", ".", "l", "a", "n", "g", ".", "I", "n", "t", "e", "g", "e", "r">>,
     <<"j", "a", "v", "a", ".", "l", "a", "n", "g", ".", "L", "o", "n", "g">>,
     <<"j", "a", "v", "a", ".", "l", "a", "n", "g", ".", "S", "t", "r", "i", "n", "g">>,
     <<"j", "a", "v", "a", ".", "l", "a", "n", "g", ".", "O", "b", "j", "e", "c", "t">>,
     <<"e", ".", "B", "a", "s", "e">>,
     <<"p", ".", "B">>,
     <<"x", ".", "U">>,
     <<"I">>,
     <<"[", "I">>,
     <<"[", "[", "I">>,
     <<"[", "L", "j", "a", "v", "a", ".", "l", "a", "n", "g", ".", "S", "t", "r", "i", "n", "g", ";">>,
     <<"[", "[", "L", "j", "a", "v", "a", ".", "l", "a", "n", "g", ".", "S", "t", "r", "i", "n", "g", ";">>,
     <<"[", "L", "e", ".", "B", "a", "s", "e", ";">>,
     <<"[", "[", "L", "e", ".", "B", "a", "s", "e", ";">>,
     <<"[", "[", "[", "J">>}

\* Mutant: the call leaves in unhandledTypes only what it recorded itself.
tsTypeNameCall_ForgetsUnhandled ==
    /\ Phase = "done"
    /\ ~answer.asked
    /\ \E javaTypeName \in TypeNameQueries, context \in {"eInput", "eReturn"},
          encodedTypes \in BOOLEAN :
            LET r == tsTypeName(javaTypeName, context, encodedTypes)
            IN  /\ query' = [javaTypeName |-> javaTypeName, context |-> context,
                             encodedTypes |-> encodedTypes]
                /\ answer' = [asked |-> TRUE, call |-> "tsTypeName", result |-> r,
                              before |-> unhandledTypes]
                /\ unhandledTypes' = r.unhandled
    /\ UNCHANGED <<confVars, ctlVars, scanVars, setVars, snVars, mapVars,
                   unhandledInterfaces, unhandledSuperClasses, interfaceDepthCache>>

\* A call of the public tsTypeName() once initialize() has completed.
tsTypeNameCall ==
    /\ Phase = "done"
    /\ ~answer.asked
    /\ \E javaTypeName \in TypeNameQueries, context \in {"eInput", "eReturn"},
          encodedTypes \in BOOLEAN :
            LET r == tsTypeName(javaTypeName, context, encodedTypes)
            IN  /\ query' = [javaTypeName |-> javaTypeName, context |-> context,
                             encodedTypes |-> encodedTypes]
                /\ answer' = [asked |-> TRUE, call |-> "tsTypeName", result |-> r,
                              before |-> unhandledTypes]
                /\ unhandledTypes' = unhandledTypes \cup r.unhandled
    /\ UNCHANGED <<confVars, ctlVars, scanVars, setVars, snVars, mapVars,
                   unhandledInterfaces, unhandledSuperClasses, interfaceDepthCache>>

\* Prototypes as Method.toGenericString() gives them, and strings that are
\* no prototype.
ProtoQueries ==
    {<<"p", "u", "b", "l", "i", "c", " ", "a", "b", "s", "t", "r", "a", "c", "t", " ", "v", "o", "i", "d", " ", "p", ".", "I", ".", "f", "o", "o", "(", ")">>,
     <<"p", "u", "b", "l", "i", "c", " ", "s", "t", "a", "t", "i", "c", " ", "<", "T", ">", " ", "j", "a", "v", "a", ".", "u", "t", "i", "l", ".", "L", "i", "s", "t", "<", "T", ">", " ", "p", ".", "B", ".", "o", "f", "(", "T", ",", "j", "a", "v", "a", ".", "u", "t", "i", "l", ".", "M", "a", "p", "<", "K", ",", " ", "V", ">", ")", " ", "t", "h", "r", "o", "w", "s", " ", "j", "a", "v", "a", ".", "i", "o", ".", "I", "O", "E", "x", "c", "e", "p", "t", "i", "o", "n">>,
     <<"p", "u", "b", "l", "i", "c", " ", "p", ".", "B", "(", "i", "n", "t", ")">>,
     <<"p", "u", "b", "l", "i", "c", " ", "f", "i", "n", "a", "l", " ", "n", "a", "t", "i", "v", "e", " ", "i", "n", "t", " ", "j", "a", "v", "a", ".", "l", "a", "n", "g", ".", "O", "b", "j", "e", "c", "t", ".", "h", "a", "s", "h", "(", ")">>,
     <<"p", "u", "b", "l", "i", "c", " ", "v", "o", "i", "d", " ", "p", ".", "B", ".", "f", "o", "o">>,
     <<"p", "u", "b", "l", "i", "c", " ", "v", "o", "i", "d", " ", "p", ".", "B", ".", "f", "o", "o", "(", "i", "n", "t", ")", " ", "t", "h", "r", "o", "w", "s">>,
     <<"<", "T", ",", " ", "U", ">", " ", "(", "x", ")">>,
     <<"p", "u", "b", "l", "i", "c", " ", "v", "o", "i", "d", " ", "c", ".", "Z", ".", "f", "o", "o", EAcute, "(", ")">>,
     << >>}

\* A call of the public translateGenericProto().
translateGenericProtoCall ==
    /\ Phase = "done"
    /\ ~answer.asked
    /\ \E generic_proto \in ProtoQueries :
            /\ query' = [generic_proto |-> generic_proto]
            /\ answer' = [asked |-> TRUE, call |-> "translateGenericProto",
                          result |-> translateGenericProto(generic_proto)]
    /\ UNCHANGED <<confVars, ctlVars, scanVars, setVars, snVars, mapVars, diagVars>>

\* Generic type strings as Type.getTypeName() gives them.
GenericTypeQueries ==
    {<<"i", "n", "t">>,
     <<"i", "n", "t", "[", "]">>,
     <<"i", "n", "t", "[", "]", "[", "]">>,
     <<"e", ".", "B", "a", "s", "e", "[", "]">>,
     <<"e", ".", "B", "a", "s", "e", "[", "]", "[", "]", "[", "]">>,
     <<"T", "[", "]">>,
     <<"x", ".", "U", "[", "]">>,
     <<"j", "a", "v", "a", ".", "l", "a", "n", "g", ".", "S", "t", "r", "i", "n", "g", "[", "]">>,
     <<"e", ".", "B", "a", "s", "e", "<", "T", ">", "[", "]">>,
     <<"e", ".", "B", "a", "s", "e", "<", "?", " ", "e", "x", "t", "e", "n", "d", "s", " ", "e", ".", "D", "e", "r", "i", "v", "e", "d", ",", " ", "?", " ", "s", "u", "p", "e", "r", " ", "T", ">">>,
     <<"e", ".", "B", "a", "s", "e", "<", "e", ".", "B", "a", "s", "e", "<", "?", ">", ">", "[", "]", "[", "]">>,
     <<"p", ".", "B", "<", "i", "n", "t", ",", " ", "p", ".", "s", ".", "D", "<", "T", ">", ">">>}

\* A call of the public translateGenericType() once initialize() has
\* completed.
translateGenericTypeCall ==
    /\ Phase = "done"
    /\ ~answer.asked
    /\ \E javaGenericType \in GenericTypeQueries :
            /\ query' = [javaGenericType |-> javaGenericType]
            /\ answer' = [asked |-> TRUE, call |-> "translateGenericType",
                          result |-> translateGenericType(javaGenericType)]
    /\ UNCHANGED <<confVars, ctlVars, scanVars, setVars, snVars, mapVars, diagVars>>

Init ==
    /\ \E opts \in MapperOptions : Constructed(opts)
    /\ query = Null
    /\ answer = [asked |-> FALSE]

Next ==
    \/ \E jar \in Jars : getWhitedListedClassesInJar(jar)
    \/ preScanAllClasses
    \/ loadClassCache
    \/ createShortNameMap
    \/ \E longName \in ClassUniverse : createShortNameMapVisit(longName)
    \/ createShortNameMapReturn
    \/ analyzeIncludedClasses
    \/ \E className \in ClassUniverse : forEachVisit(className)
    \/ mapClassInherited
    \/ mapClassReturn
    \/ analyzeIncludedClassesReturn
    \/ tsTypeNameCall
    \/ translateGenericTypeCall
    \/ translateGenericProtoCall

Spec == Init /\ [][Next]_vars

(***************************************************************************)
(* The two sets of names on their own: the scan, the prune, and the public *)
(* queries isIncludedClass and isExcludedClass on a known name.            *)
(***************************************************************************)
InitSets ==
    /\ \E opts \in MapperOptions \cup NestedNameOptions : Constructed(opts)
    /\ query = Null
    /\ answer = [asked |-> FALSE]

\* A call of isIncludedClass(className) and of isExcludedClass(className)
\* for a name seen in the scan.
IncludedOrExcludedCall ==
    /\ ~answer.asked
    /\ \E className \in allClasses \cup allExcludedClasses :
          /\ query' = className
          /\ answer' = [asked |-> TRUE, call |-> "isIncludedClass",
                        included |-> IF classNameOnlyThrows(className)
                                       THEN [outcome |-> "throw",
                                             name |-> className]
                                       ELSE [outcome |-> "return",
                                             value |-> isIncludedClass(className)],
                        excluded |-> isExcludedClass(className)]
    /\ UNCHANGED <<confVars, ctlVars, scanVars, setVars, snVars, mapVars, diagVars>>

NextSets ==
    \/ \E jar \in Jars : getWhitedListedClassesInJar(jar)
    \/ preScanAllClasses
    \/ loadClassCache
    \/ IncludedOrExcludedCall

SpecSets == InitSets /\ [][NextSets]_vars

(***************************************************************************)
(* The whitelist on its own: one configured entry, one queried name.       *)
(***************************************************************************)
MaxNameLen == 5

WLAlphabet == {"a", "b", ".", "$", "1"}

WLNames == UNION {[1..n -> WLAlphabet] : n \in 1..MaxNameLen}

WLPackage == <<"a">>
WLNested  == <<"a", ".", "b">>

\* Package expressions: a.*, a.**, a.b.*, a.b.** and bare class names.
WLBareNames == {<<"a", ".", "b">>, <<"a", ".", "b", "$", "a">>}

WLExpressions ==
    {WLPackage \o <<".", "*">>, WLPackage \o <<".", "*", "*">>,
     WLNested \o <<".", "*">>, WLNested \o <<".", "*", "*">>} \cup WLBareNames

WLOptions ==
    {[packages |-> {e}, classes |-> {}, classpath |-> {}] : e \in WLExpressions}
        \cup {[packages |-> {}, classes |-> {c}, classpath |-> {}] : c \in WLBareNames}

NoAnswer == [asked |-> FALSE]

InitWL ==
    /\ \E opts \in WLOptions : Constructed(opts)
    /\ query \in WLNames
    /\ answer = NoAnswer

\* A call of the public inWhiteList(query), recording the patterns that
\* matched beside the result.
QueryInWhiteList ==
    /\ answer = NoAnswer
    /\ answer' = [asked   |-> TRUE,
                  matched |-> {ns \in includedPatterns : RegExpTest(ns, query)},
                  allowed |-> inWhiteList(query)]
    /\ UNCHANGED <<confVars, query, ctlVars, scanVars, setVars, snVars, mapVars, diagVars>>

NextWL == QueryInWhiteList

SpecWL == InitWL /\ [][NextWL]_vars

(***************************************************************************)
(* compareVariants on its own: three descriptors of one method name, and   *)
(* the collation String.prototype.localeCompare uses.                      *)
(***************************************************************************)
\* The punctuation of signatures and prototypes in the order of the root
\* collation, which puts it before digits and digits before letters.
CollationSymbols ==
    <<" ", "_", "-", ",", ";", ":", "!", "?", ".", "(", ")", "[", "]", "@", "*", "/",
      "&", "#", "%", "^", "+", "<", "=", ">", "|", "~", "$">>

Alphabet ==
    <<"a", "b", "c", "d", "e", "f", "g", "h", "i", "j", "k", "l", "m",
      "n", "o", "p", "q", "r", "s", "t", "u", "v", "w", "x", "y", "z">>

Capitals ==
    <<"A", "B", "C", "D", "E", "F", "G", "H", "I", "J", "K", "L", "M",
      "N", "O", "P", "Q", "R", "S", "T", "U", "V", "W", "X", "Y", "Z">>

PositionIn(seq, c) == CHOOSE i \in 1..Len(seq) : seq[i] = c

\* The primary weight of a character: a letter weighs the same in both cases.
PrimaryWeight(c) ==
    IF c \in Range(CollationSymbols) THEN PositionIn(CollationSymbols, c)
    ELSE IF c \in Digits THEN Len(CollationSymbols) + 1 + PositionIn(CodeUnits, c)
    ELSE IF c \in LowerCase THEN 200 + PositionIn(Alphabet, c)
    ELSE 200 + PositionIn(Capitals, c)

\* The tertiary weight: a small letter sorts before its capital.
TertiaryWeight(c) == IF c \in UpperCase THEN 1 ELSE 0

PrimaryKey(x) == [i \in 1..Len(x) |-> PrimaryWeight(x[i])]

TertiaryKey(x) == [i \in 1..Len(x) |-> TertiaryWeight(x[i])]

CodeUnitKey(x) == [i \in 1..Len(x) |-> CodeUnit(x[i])]

\* The comparison of two sequences of weights: at the first difference, or
\* the shorter first.
CompareKeys(x, y) ==
    LET n     == IF Len(x) < Len(y) THEN Len(x) ELSE Len(y)
        diffs == {i \in 1..n : x[i] # y[i]}
        first == CHOOSE i \in diffs : \A j \in diffs : i <= j
    IN  IF diffs # {} THEN (IF x[first] < y[first] THEN -1 ELSE 1)
        ELSE IF Len(x) < Len(y) THEN -1
        ELSE IF Len(x) > Len(y) THEN 1
        ELSE 0

\* x.localeCompare(y).  The language leaves the collation to the
\* implementation: with ICU it is the root collation (primary weights, then
\* case), without it the order of the code units.
localeCompare(x, y, collation) ==
    IF collation = "icu"
    THEN IF CompareKeys(PrimaryKey(x), PrimaryKey(y)) # 0
         THEN CompareKeys(PrimaryKey(x), PrimaryKey(y))
         ELSE CompareKeys(TertiaryKey(x), TertiaryKey(y))
    ELSE CompareKeys(CodeUnitKey(x), CodeUnitKey(y))

countArgsOfTypeAny(a) ==
    Cardinality({i \in 1..Len(a.tsParamTypes) : a.tsParamTypes[i] = <<"a", "n", "y">>})

\* Mutant: an equal count of 'any' arguments puts a first.
compareVariants_AnyCountOrEqual(a, b, collation) ==
    IF Len(a.paramTypes) > Len(b.paramTypes) THEN -1
    ELSE IF Len(a.paramTypes) < Len(b.paramTypes) THEN 1
    ELSE IF countArgsOfTypeAny(a) <= countArgsOfTypeAny(b) THEN -1
    ELSE IF countArgsOfTypeAny(a) > countArgsOfTypeAny(b) THEN 1
    ELSE IF Len(a.signature) > Len(b.signature) THEN -1
    ELSE IF Len(a.signature) < Len(b.signature) THEN 1
    ELSE IF localeCompare(b.signature, a.signature, collation) # 0
        THEN localeCompare(b.signature, a.signature, collation)
    ELSE localeCompare(a.generic_proto, b.generic_proto, collation)

compareVariants(a, b, collation) ==
    IF Len(a.paramTypes) > Len(b.paramTypes) THEN -1
    ELSE IF Len(a.paramTypes) < Len(b.paramTypes) THEN 1
    ELSE IF countArgsOfTypeAny(a) < countArgsOfTypeAny(b) THEN -1
    ELSE IF countArgsOfTypeAny(a) > countArgsOfTypeAny(b) THEN 1
    ELSE IF Len(a.signature) > Len(b.signature) THEN -1
    ELSE IF Len(a.signature) < Len(b.signature) THEN 1
    ELSE IF localeCompare(b.signature, a.signature, collation) # 0
        THEN localeCompare(b.signature, a.signature, collation)
    ELSE localeCompare(a.generic_proto, b.generic_proto, collation)

\* The parameter lists of the variants of foo, the classes that declare
\* them, and for each variant the parameters that are translated to 'any'.
VariantParamTypes ==
    {<< >>, <<TInt>>, <<<<"l", "o", "n", "g">>>>, <<c_X>>, <<c_Y>>, <<p_I>>,
     <<TInt, <<"l", "o", "n", "g">>>>, <<<<"l", "o", "n", "g">>, TInt>>, <<c_X, TInt>>}

VariantDeclarers == {p_B, p_I}

Variant(paramTypes, declaring, anys) ==
    LET method == Method(Foo, paramTypes, TVoid, declaring)
    IN  [name          |-> Foo,
         declared      |-> declaring,
         paramTypes    |-> paramTypes,
         tsParamTypes  |-> [i \in 1..Len(paramTypes) |->
                                IF i \in anys THEN <<"a", "n", "y">>
                                ELSE translateIfPrimitiveType(paramTypes[i], "eInput")],
         generic_proto |-> toGenericString(method),
         signature     |-> methodSignature(method)]

Variants ==
    {Variant(pt, d, anys) :
        pt \in VariantParamTypes, d \in VariantDeclarers, anys \in {{}, {1}}}

InitCV ==
    /\ Constructed([packages |-> {}, classes |-> {}, classpath |-> {}])
    /\ query \in [a : Variants, b : Variants, c : Variants, collation : {"icu", "code unit"}]
    /\ answer = NoAnswer

\* The comparisons a sort makes among three variants.
CompareVariants ==
    /\ answer = NoAnswer
    /\ answer' = [asked |-> TRUE, call |-> "compareVariants",
                  aa |-> compareVariants(query.a, query.a, query.collation),
                  ab |-> compareVariants(query.a, query.b, query.collation),
                  ba |-> compareVariants(query.b, query.a, query.collation),
                  bc |-> compareVariants(query.b, query.c, query.collation),
                  ac |-> compareVariants(query.a, query.c, query.collation)]
    /\ UNCHANGED <<confVars, query, ctlVars, scanVars, setVars, snVars, mapVars, diagVars>>

\* What compareVariants returns for each pair of variants (it depends on
\* nothing but its arguments and the collation).
ComparedVariants ==
    [collation \in {"icu", "code unit"} |->
        [a \in Variants |-> [b \in Variants |-> compareVariants(a, b, collation)]]]

\* Every order in which the members of a finite set can be listed.
RECURSIVE Orderings(_)
Orderings(S) ==
    IF S = {} THEN {<< >>}
    ELSE UNION {{<<x>> \o rest : rest \in Orderings(S \ {x})} : x \in S}

\* s.toLowerCase()
ToLowerCase(s) ==
    [i \in 1..Len(s) |-> IF s[i] \in UpperCase THEN Alphabet[PositionIn(Capitals, s[i])]
                         ELSE s[i]]

\* The comparator of flattenDictionary.
caseInsensitiveOrder(a, b) ==
    IF StringLess(ToLowerCase(a), ToLowerCase(b)) THEN -1
    ELSE IF StringLess(ToLowerCase(b), ToLowerCase(a)) THEN 1
    ELSE 0

\* What the comparator of flattenDictionary returns for each pair of
\* signatures of the variants.
ComparedKeys ==
    [a \in {v.signature : v \in Variants} |->
        [b \in {v.signature : v \in Variants} |-> caseInsensitiveOrder(a, b)]]

\* The arrays flattenDictionary may return: the values in an order of the
\* keys that the comparator accepts (keys that compare 0 in either order).
flattenDictionary(dict) ==
    {[i \in 1..Len(keys) |-> dict[keys[i]]] :
        keys \in {k \in Orderings(DOMAIN dict) :
                    \A i, j \in 1..Len(k) : i < j => ComparedKeys[k[i]][k[j]] <= 0}}

\* Mutant: the array is left in the order flattenDictionary gave it.
sortVariants_KeepOrder(array, collation) == {array}

\* The arrays array.sort(this.compareVariants) may leave: no element is
\* after one the comparator puts it before.
sortVariants(array, collation) ==
    {sorted \in Orderings(Range(array)) :
        \A i, j \in 1..Len(sorted) :
            i < j => ComparedVariants[collation][sorted[i]][sorted[j]] <= 0}

\* groupMethods for the methods of one name, in the order the provider
\* lists them: a method replaces an earlier one of its signature.
VariantsBySignature(flatList) ==
    [sig \in {flatList[i].signature : i \in 1..Len(flatList)} |->
        flatList[Max({i \in 1..Len(flatList) : flatList[i].signature = sig})]]

\* _.values(dict), as a set.
Values(dict) == {dict[k] : k \in DOMAIN dict}

\* The entry of the variants view for one name of the variants dictionary.
VariantsView(bySig, collation) ==
    UNION {sortVariants(array, collation) : array \in flattenDictionary(bySig)}

\* mapClass derives the variants view of a class whose methods of one name
\* the provider lists in one order, and of a class for which it lists them
\* in the opposite order.
DeriveVariants ==
    /\ answer = NoAnswer
    /\ \E variants \in VariantsView(VariantsBySignature(<<query.a, query.b, query.c>>),
                                    query.collation),
          reversed \in VariantsView(VariantsBySignature(<<query.c, query.b, query.a>>),
                                    query.collation) :
            answer' = [asked |-> TRUE, call |-> "variants",
                       group    |-> Values(VariantsBySignature(<<query.a, query.b, query.c>>)),
                       variants |-> variants,
                       regroup  |-> Values(VariantsBySignature(<<query.c, query.b, query.a>>)),
                       reversed |-> reversed]
    /\ UNCHANGED <<confVars, query, ctlVars, scanVars, setVars, snVars, mapVars, diagVars>>

NextCV == CompareVariants \/ DeriveVariants

SpecCV == InitCV /\ [][NextCV]_vars

(***************************************************************************)
(* Properties of the mapper (checked under Spec).                          *)
(***************************************************************************)
PhaseDone(name) == \E i \in 1..Len(initialize) : initialize[i] = name /\ step > i

\* The classes a class of the table inherits from, by its descriptor.
RECURSIVE Ancestors(_)
Ancestors(c) ==
    UNION {{parent} \cup Ancestors(parent) : parent \in Range(classes[c].interfaces)}

RECURSIVE DepthOf(_)
DepthOf(c) ==
    IF classes[c].interfaces = << >> THEN 0
    ELSE Max({DepthOf(parent) : parent \in Range(classes[c].interfaces)}) + 1

\* The ancestors of c that hold signature sig under method name m.
Holders(c, m, sig) ==
    {a \in Ancestors(c) : /\ m \in DOMAIN classes[a].variantsDict
                          /\ sig \in DOMAIN classes[a].variantsDict[m]}

OwnMethods(c, m) == {x \in classes[c].methods : x.name = m}

\* C1 (as claimed): after the merge every signature of a class maps to its
\* most specific declaration: the class's own if it declares the signature,
\* else that of a deepest ancestor holding it; no shallower ancestor
\* overwrites it.
C1_MostSpecificWins ==
    \A c \in DOMAIN classes :
        \A m \in DOMAIN classes[c].variantsDict :
            \A sig \in DOMAIN classes[c].variantsDict[m] :
                LET own == {x \in OwnMethods(c, m) : x.signature = sig}
                    h   == Holders(c, m, sig)
                IN  IF own # {}
                    THEN classes[c].variantsDict[m][sig] \in own
                    ELSE \E a \in h :
                            /\ \A b \in h : DepthOf(b) <= DepthOf(a)
                            /\ classes[c].variantsDict[m][sig] = classes[a].variantsDict[m][sig]

\* C1 (amended): the merge keeps the method names of the class; under each
\* name it holds the class's own signatures and those of every ancestor
\* that has the name; a signature some ancestor holds maps to the descriptor
\* of a shallowest such ancestor (it overwrites the class's own), and only a
\* signature no ancestor holds keeps the class's own descriptor.
C1_ShallowestHolderWins ==
    \A c \in DOMAIN classes :
        /\ DOMAIN classes[c].variantsDict = {x.name : x \in classes[c].methods}
        /\ \A m \in DOMAIN classes[c].variantsDict :
            /\ DOMAIN classes[c].variantsDict[m] =
                    {x.signature : x \in OwnMethods(c, m)}
                        \cup UNION {DOMAIN classes[a].variantsDict[m] :
                                        a \in {b \in Ancestors(c) :
                                                m \in DOMAIN classes[b].variantsDict}}
            /\ \A sig \in DOMAIN classes[c].variantsDict[m] :
                LET h == Holders(c, m, sig)
                IN  IF h = {}
                    THEN classes[c].variantsDict[m][sig] \in OwnMethods(c, m)
                    ELSE \E a \in h :
                            /\ \A b \in h : DepthOf(a) <= DepthOf(b)
                            /\ classes[c].variantsDict[m][sig] = classes[a].variantsDict[m][sig]

\* C1 witness: J declares foo()V itself, and after its merge that signature
\* maps to the declaration of its parent I.
C1_Witness ==
    /\ p_J \in DOMAIN classes
    /\ \E x \in classes[p_J].methods : x.name = Foo /\ x.declared = p_J
    /\ \E sig \in DOMAIN classes[p_J].variantsDict[Foo] :
            classes[p_J].variantsDict[Foo][sig].declared = p_I

\* The classes whose reflected ancestry leads back to themselves.
ReflectedParents(c) ==
    Range(Reflect(c).interfaces)
        \cup (IF Reflect(c).superclass = Null THEN {} ELSE {Reflect(c).superclass})

RECURSIVE ReflectedAncestors(_, _)
ReflectedAncestors(todo, seen) ==
    IF todo = {} THEN seen
    ELSE LET next == UNION {ReflectedParents(c) : c \in todo}
         IN  ReflectedAncestors(next \ seen, seen \cup next)

OnCycle(c) == c \in ReflectedAncestors({c}, {})

C3_TableIsInScopeSet ==
    /\ DOMAIN classes \subseteq allClasses
    /\ Phase = "done" => DOMAIN classes = allClasses

\* C3 witness: a completed run with classes in scope and classes excluded,
\* one of them pruned after passing the whitelist.
C3_Witness ==
    /\ Phase = "done"
    /\ DOMAIN classes # {}
    /\ p_H \in allExcludedClasses
    /\ p_K \in DOMAIN classes

\* C4: when initialize() has completed, the superclass and every interface
\* named by a descriptor of the class table has a descriptor of its own.
C4_TableIsClosed ==
    Phase = "done" =>
        \A c \in DOMAIN classes :
            /\ classes[c].superclass # Null => classes[c].superclass \in DOMAIN classes
            /\ Range(classes[c].interfaces) \subseteq DOMAIN classes

\* C4 witness: a completed run in which q.D has the distant superclass
\* java.lang.Object (p.D and p.B are out of scope) and the interface J has
\* java.lang.Object as its implicit interface.
C4_Witness ==
    /\ Phase = "done"
    /\ q_D \in DOMAIN classes /\ p_J \in DOMAIN classes
    /\ classes[q_D].superclass = JavaLangObject
    /\ classes[p_J].interfaces = <<JavaLangObject>>

\* C5: the phases run in the order pre-scan, load-and-prune, short-name
\* map, analyze, each only after its predecessor has completed: classes are
\* loaded only after every jar is scanned, the short-name map is started
\* only after the loaded classes are exactly the pruned in-scope set, and
\* no class is mapped before the short-name map holds the short name of
\* every in-scope class.
C5_PhasesInOrder ==
    LET loading  == classCache # {} \/ PhaseDone("loadClassCache")
        naming   == ~shortToLongNameMap.isNull
        mapping  == work.live \/ stack # << >> \/ classes # << >>
                        \/ \E c \in ClassUniverse : mapCalls[c] > 0
    IN  /\ (loading \/ naming \/ mapping) =>
                /\ PhaseDone("preScanAllClasses")
                /\ scanned = options.classpath
        /\ (naming \/ mapping) =>
                /\ PhaseDone("loadClassCache")
                /\ classCache = allClasses
                /\ \A c \in allClasses : Reflect(c).modifiers = "public"
        /\ mapping =>
                /\ PhaseDone("createShortNameMap")
                /\ naming /\ snPending = {}
                /\ DOMAIN shortToLongNameMap.map = {shortClassName(c) : c \in allClasses}
        /\ Phase = "done" => PhaseDone("analyzeIncludedClasses") /\ work.todo = {}

\* C5 witness: a class is being mapped, after a pre-scan of three jars and a
\* prune that removed a class.
C5_Witness ==
    /\ Phase = "analyzeIncludedClasses"
    /\ stack # << >>
    /\ Cardinality(scanned) = 3
    /\ p_H \in allExcludedClasses

\* C6: when the pre-scan has completed, in whatever order the jars were
\* scanned and however many jars hold the same entry, allClasses is the
\* union over the jars of the class names that pass inWhiteList and
\* allExcludedClasses the union of those that fail it.
C6_PreScanIsUnion ==
    /\ Phase = "preScanAllClasses" =>
            allExcludedClasses =
                UNION {{n \in ClassNamesInJar(j) : ~inWhiteList(n)} : j \in scanned}
    /\ Phase = "loadClassCache" =>
            /\ allClasses =
                    {n \in UNION {ClassNamesInJar(j) : j \in options.classpath} :
                        inWhiteList(n)}
            /\ allExcludedClasses =
                    {n \in UNION {ClassNamesInJar(j) : j \in options.classpath} :
                        ~inWhiteList(n)}

\* C6 witness: the pre-scan of a classpath in which p.jar and q.jar both
\* hold p.I (accepted) and p.D$1 (rejected) has completed.
C6_Witness ==
    /\ Phase = "loadClassCache"
    /\ {"p.jar", "q.jar"} \subseteq options.classpath
    /\ p_I \in allClasses
    /\ p_D_1 \in allExcludedClasses
    /\ q_D \in allClasses

RECURSIVE EnclosingChain(_)
EnclosingChain(c) ==
    {c} \cup (IF Reflect(c).enclosingClass = Null THEN {}
              ELSE EnclosingChain(Reflect(c).enclosingClass))

\* C7: after load-and-prune a pre-scanned in-scope name is still in
\* allClasses iff its class and every class enclosing it is public; every
\* other such name has moved to allExcludedClasses.
C7_PrunedToPublicChains ==
    PhaseDone("loadClassCache") =>
        LET preScanned == UNION {jarResult[j] : j \in options.classpath}
            rejected   == UNION {ClassNamesInJar(j) \ jarResult[j] : j \in options.classpath}
            kept       == {n \in preScanned :
                            \A k \in EnclosingChain(n) : Reflect(k).modifiers = "public"}
        IN  /\ allClasses = kept
            /\ allExcludedClasses = rejected \cup (preScanned \ kept)

\* C7 witness: the public class H$N, nested in the package-private H, passed
\* the whitelist and has been moved to the excluded classes.
C7_Witness ==
    /\ PhaseDone("loadClassCache")
    /\ p_H_N \in UNION {jarResult[j] : j \in options.classpath}
    /\ Reflect(p_H_N).modifiers = "public"
    /\ p_H_N \in allExcludedClasses /\ p_H_N \notin allClasses

LastSegment(name) == SubSeq(name, LastIndexOf(name, ".") + 1, Len(name))

\* C10 (as claimed): the alias of every class of the table is its last-segment name, with
\* useAlias true, iff that name is not reserved and no other in-scope class
\* has it; otherwise the alias is the full name, with useAlias false; and
\* getJavaAliasName gives 'Java.' + that alias.
C10_AliasIffUnique ==
    \A c \in DOMAIN classes :
        LET unique == /\ LastSegment(c) \notin {<<"N", "u", "m", "b", "e", "r">>}
                      /\ \A n \in allClasses : LastSegment(n) = LastSegment(c) => n = c
        IN  /\ classes[c].useAlias <=> unique
            /\ classes[c].alias = (IF unique THEN LastSegment(c) ELSE c)
            /\ getJavaAliasName(c) = JavaNamespace \o classes[c].alias

\* C11: java.lang.Object has depth 0; every other mapped class has parents
\* (its interfaces list) and depth 1 + the greatest depth of a parent; every
\* memoized depth is the depth computed afresh from the class table, and a
\* memoized depth never changes, so a repeated query gives the same number.
C11_InterfaceDepth ==
    /\ [](/\ \A c \in DOMAIN classes :
                LET d == interfaceDepth(classes, interfaceDepthCache, c)
                IN  IF c = JavaLangObject THEN d = 0
                    ELSE /\ classes[c].interfaces # << >>
                         /\ d = 1 + Max({interfaceDepth(classes, interfaceDepthCache, parent) :
                                            parent \in Range(classes[c].interfaces)})
          /\ \A c \in DOMAIN interfaceDepthCache :
                c \in DOMAIN classes /\ interfaceDepthCache[c] = DepthOf(c))
    /\ [][\A c \in DOMAIN interfaceDepthCache :
            /\ c \in DOMAIN interfaceDepthCache'
            /\ interfaceDepthCache'[c] = interfaceDepthCache[c]
            /\ interfaceDepth(classes', interfaceDepthCache', c) = interfaceDepthCache[c]]_vars

\* C11 witness: the depths of the diamond are memoized: Object 0, I 1, J 2
\* and D, which extends B and implements K and J, 3.
C11_Witness ==
    /\ {JavaLangObject, p_I, p_J, p_D} \subseteq DOMAIN interfaceDepthCache
    /\ interfaceDepthCache[JavaLangObject] = 0
    /\ interfaceDepthCache[p_I] = 1
    /\ interfaceDepthCache[p_J] = 2
    /\ interfaceDepthCache[p_D] = 3

\* C15: when the provider cannot load an in-scope class during
\* load-and-prune, the run has failed with an error naming that class, the
\* prune, the short-name map and the analysis have not run, and when getClass
\* is asked for a name absent from the class cache the run has failed with an
\* error naming it and no descriptor of it; a failed run takes no further
\* step, so initialize() never completes.
C15_FailFast ==
    /\ [](/\ failed <=> error # NoError
          /\ failed => Phase # "done"
          /\ error.kind = "loadClass" =>
                /\ error.name \in allClasses /\ error.name \notin classCache
                /\ ~PhaseDone("loadClassCache")
                /\ shortToLongNameMap.isNull /\ snPending = {}
                /\ ~work.live /\ stack = << >> /\ classes = << >>
                /\ \A c \in ClassUniverse : mapCalls[c] = 0
          /\ error.kind = "ClassNotFoundException" =>
                /\ error.name \notin classCache
                /\ error.name \notin DOMAIN classes
                /\ mapCalls[error.name] > 0)
    /\ [][failed => UNCHANGED vars]_vars

\* C15 witness: loadClass failed for c.Z after other classes were cached.
C15_Witness ==
    /\ failed
    /\ error = [kind |-> "loadClass", name |-> c_Z]
    /\ JavaLangObject \in classCache

\* The reflected superclass chain above a class, nearest first.
RECURSIVE SuperclassChain(_)
SuperclassChain(c) ==
    IF Reflect(c).superclass = Null THEN << >>
    ELSE <<Reflect(c).superclass>> \o SuperclassChain(Reflect(c).superclass)

\* Where the walk up a chain ends: at the first class that is in scope or
\* was never scanned, or past the end of the chain.
WalkEndOf(chain) ==
    LET stops == {i \in 1..Len(chain) :
                    chain[i] \in allClasses \/ chain[i] \notin allExcludedClasses}
    IN  IF stops = {} THEN Len(chain) + 1 ELSE Min(stops)

WalkEnd(c) == WalkEndOf(SuperclassChain(c))

SkippedBelow(c) == {SuperclassChain(c)[i] : i \in 1..(WalkEnd(c) - 1)}

IsSortedStrictly(seq) == \A i \in 1..(Len(seq) - 1) : StringLess(seq[i], seq[i + 1])

\* The descriptor of c has the class at position end of the chain as its
\* superclass (null past the end of the chain) and lists it ahead of its
\* resolved interfaces, which are in sorted order.
SuperclassResolvedAt(c, chain, end) ==
    LET nearest == IF end <= Len(chain) THEN chain[end] ELSE Null
        intfs   == classes[c].interfaces
        rest    == IF nearest = Null THEN intfs ELSE Tail(intfs)
    IN  /\ nearest # Null => nearest \in allClasses
        /\ classes[c].superclass = nearest
        /\ nearest # Null => intfs # << >> /\ intfs[1] = nearest
        /\ IsSortedStrictly(rest)
        /\ Range(rest) = mapClassInterfaces(c, resolveInterfaces(c).result)

\* C20: the superclass of a descriptor is the nearest in-scope class of the
\* reflected superclass chain, or null when there is none; it is then the
\* first element of the interfaces list, followed by the resolved interfaces
\* in sorted order; and unhandledSuperClasses holds exactly the classes
\* passed over below the resolved superclass of the classes mapped so far.
C20_SuperclassResolution ==
    /\ \A c \in DOMAIN classes : SuperclassResolvedAt(c, SuperclassChain(c), WalkEnd(c))
    /\ unhandledSuperClasses =
            UNION {SkippedBelow(c) : c \in {x \in classCache : mapCalls[x] > 0}}

\* C20 witness: q.D extends p.D extends p.B, both out of scope, so its
\* superclass is java.lang.Object, which leads its interfaces list ahead of
\* p.J, and p.D and p.B are recorded.
C20_Witness ==
    /\ q_D \in DOMAIN classes
    /\ classes[q_D].superclass = JavaLangObject
    /\ classes[q_D].interfaces = <<JavaLangObject, p_J>>
    /\ unhandledSuperClasses = {p_D, p_B}

\* C13: for every class of the table and every order the sort may give the
\* closure of its interfaces, merging the inherited variants into the
\* class's grouped methods and then merging once more, with the same
\* interfaces and the same table, gives the dictionary of the first merge;
\* the dictionary of the descriptor is such a merge.
C13_MergeIsIdempotent ==
    \A c \in DOMAIN classes :
        LET closure == interfacesTransitiveClosure(classes, classes[c].interfaces)
            orders  == DescendingOrders(classes, interfaceDepthCache, closure)
            own     == groupMethods(classes[c].methods)
        IN  /\ \A interfaces \in orders :
                LET once == mergeOverloadedVariants(classes, own, interfaces)
                IN  mergeOverloadedVariants(classes, once, interfaces) = once
            /\ \E interfaces \in orders :
                /\ classes[c].variantsDict = mergeOverloadedVariants(classes, own, interfaces)
                /\ mergeOverloadedVariants(classes, classes[c].variantsDict, interfaces)
                        = classes[c].variantsDict

\* C13 witness: D is mapped; its merge took signatures from three levels of
\* ancestors and changed its own dictionary.
C13_Witness ==
    /\ p_D \in DOMAIN classes
    /\ Cardinality(interfacesTransitiveClosure(classes, classes[p_D].interfaces)) >= 5
    /\ classes[p_D].variantsDict # groupMethods(classes[p_D].methods)

TsTypeNameAsked == answer.asked /\ answer.call = "tsTypeName"

\* The types C16 names, with the boxed class of each and the TypeScript
\* names expected in the two contexts.
BoxedTable ==
    {[java |-> <<"i", "n", "t">>, boxed |-> JavaLangInteger,
      input |-> <<"i", "n", "t", "e", "g", "e", "r", "_", "t">>, return |-> <<"n", "u", "m", "b", "e", "r">>],
     [java |-> JavaLangInteger, boxed |-> JavaLangInteger,
      input |-> <<"i", "n", "t", "e", "g", "e", "r", "_", "t">>, return |-> <<"n", "u", "m", "b", "e", "r">>],
     [java |-> <<"l", "o", "n", "g">>, boxed |-> JavaLangLong,
      input |-> <<"l", "o", "n", "g", "_", "t">>, return |-> <<"l", "o", "n", "g", "V", "a", "l", "u", "e", "_", "t">>],
     [java |-> JavaLangLong, boxed |-> JavaLangLong,
      input |-> <<"l", "o", "n", "g", "_", "t">>, return |-> <<"l", "o", "n", "g", "V", "a", "l", "u", "e", "_", "t">>],
     [java |-> JavaLangString, boxed |-> JavaLangString,
      input |-> <<"s", "t", "r", "i", "n", "g", "_", "t">>, return |-> <<"s", "t", "r", "i", "n", "g">>]}

\* C16 (as claimed): tsTypeName of java.lang.Integer, and of int, is integer_t
\* in input-parameter context and number in return context, and likewise for
\* each boxed type of the table (java.lang.Long: long_t and longValue_t).
C16_ContextSensitive ==
    \A row \in BoxedTable :
        (TsTypeNameAsked /\ query.javaTypeName = row.java) =>
            /\ answer.result.outcome = "return"
            /\ answer.result.typeName =
                    IF query.context = "eInput" THEN row.input ELSE row.return

\* C16 (amended): that holds when the boxed class is in scope.  When it is on
\* the classpath but not in scope, the result is object_t in either context
\* and the boxed class is recorded in unhandledTypes.  When it is in no jar
\* of the classpath, the call throws.
C16_ContextSensitiveInScope ==
    \A row \in BoxedTable :
        (TsTypeNameAsked /\ query.javaTypeName = row.java) =>
            IF row.boxed \in allClasses
            THEN /\ answer.result.outcome = "return"
                 /\ answer.result.typeName =
                         IF query.context = "eInput" THEN row.input ELSE row.return
                 /\ unhandledTypes = answer.before
            ELSE IF row.boxed \notin allExcludedClasses
            THEN /\ answer.result.outcome = "throw"
                 /\ unhandledTypes = answer.before
            ELSE /\ answer.result.outcome = "return"
                 /\ answer.result.typeName = <<"o", "b", "j", "e", "c", "t", "_", "t">>
                    /\ unhandledTypes = answer.before \cup {row.boxed}

\* C16 witness: int was translated for a parameter with java.lang.Integer in
\* scope.
C16_Witness ==
    /\ TsTypeNameAsked
    /\ {JavaLangInteger, JavaLangLong} \subseteq allClasses
    /\ query.javaTypeName = <<"i", "n", "t">>
    /\ query.context = "eInput"
    /\ answer.result.typeName = <<"i", "n", "t", "e", "g", "e", "r", "_", "t">>

\* The element of an array type name, translated on its own, and the number
\* of dimensions.
ElementType == SubSeq(query.javaTypeName, LeadingBrackets(query.javaTypeName) + 1,
                      Len(query.javaTypeName))

ElementTranslated == tsTypeName(ElementType, query.context, TRUE).typeName

Dimensions == LeadingBrackets(query.javaTypeName)

IsPrimitiveElement ==
    jniDecodeType(ElementType, TRUE).typeName \in DOMAIN primitiveToObjectMap

\* The parts of C17 about no dimension and about the return context.
ArraysPassOrSuffixed ==
    /\ Dimensions = 0 => answer.result.typeName = ElementTranslated
    /\ query.context = "eReturn" =>
            answer.result.typeName
                = ElementTranslated \o Repeat(<<"[", "]">>, Dimensions)

TranslateGenericTypeReturned ==
    /\ answer.asked
    /\ answer.call = "translateGenericType"
    /\ answer.result.outcome = "return"

\* The text before the first [ of the queried generic type, and the number
\* of [] pairs after it.
GenericElement ==
    SubSeq(query.javaGenericType, 1, IndexOf(query.javaGenericType, <<"[">>, 1) - 1)

GenericDepth ==
    (Len(query.javaGenericType) - Len(GenericElement)) \div 2

\* C18: for a generic type string made of an element type followed by
\* k >= 1 '[]' pairs, translateGenericType returns the translation of the
\* element type followed by exactly k '[]' pairs.
C18_ArrayDepthPreserved ==
    (/\ TranslateGenericTypeReturned
     /\ IndexOf(query.javaGenericType, <<"[">>, 1) > 1
     /\ query.javaGenericType = GenericElement \o Repeat(<<"[", "]">>, GenericDepth)) =>
        answer.result.value
            = translateGenericType(GenericElement).value
                \o Repeat(<<"[", "]">>, GenericDepth)

\* A prototype with its modifiers and its throws clause removed.
StrippedProto(generic_proto) == RemoveThrows(RemoveEach(generic_proto, ProtoModifiers))

\* The fixed grammar, as a condition on the stripped string: optional
\* <generic-params>, optional return type and a space, a name of word
\* characters, dots and $, and a parenthesized parameter list to the end.
MatchesGrammar(tmp) ==
    \E g \in {0, GenTypesEnd(tmp)} :
        \E p \in (g + 1)..Len(tmp) :
            \E q \in (p + 1)..(Len(tmp) - 1) :
                /\ p = g + 1 \/ tmp[p - 1] = " "
                /\ \A k \in p..(q - 1) : IsPathChar(tmp[k])
                /\ tmp[q] = "("
                /\ tmp[Len(tmp)] = ")"

WellFormedProto(generic_proto) ==
    LET tmp == StrippedProto(generic_proto)
    IN  tmp # << >> /\ tmp[Len(tmp)] = ")" /\ MatchesGrammar(tmp)

\* The classes with a method whose prototype is not well formed.
MalformedClasses ==
    {c \in ClassUniverse :
        \E m \in Reflect(c).methods : ~WellFormedProto(toGenericString(m))}

\* C19: translateGenericProto throws, and returns no ParsedPrototype,
\* exactly when the stripped prototype does not end in ) or does not match
\* the grammar.  In a run the error leaves mapMethod and mapClass: it rejects
\* initialize() with the prototype as its context, the class is neither put
\* in the table nor marked done, nothing is added to the diagnostic sets for
\* it, and a run with such a class in scope never completes.
C19_MalformedPrototypeAborts ==
    /\ (answer.asked /\ answer.call = "translateGenericProto") =>
            (answer.result.outcome = "throw" <=> ~WellFormedProto(query.generic_proto))
    /\ (DOMAIN classes \cup work.done) \cap MalformedClasses = {}
    /\ error.kind = "AssertionError" =>
            /\ failed
            /\ ~WellFormedProto(error.name)
            /\ \E c \in allClasses : \E m \in Reflect(c).methods :
                    toGenericString(m) = error.name
            /\ error.name \notin unhandledTypes \cup unhandledInterfaces
                                    \cup unhandledSuperClasses
    /\ Phase = "done" => allClasses \cap MalformedClasses = {}

\* C19 witness: the run was rejected by the prototype of c.Z's method, whose
\* name holds a letter outside \w.
C19_Witness ==
    /\ failed
    /\ error.kind = "AssertionError"
    /\ error.name = toGenericString(Method(FooE, << >>, TVoid, c_Z))
    /\ c_Z \notin DOMAIN classes

\* The interfaces reflection reports for a class.
DirectInterfaces(c) == Range(Reflect(c).interfaces)

\* The interfaces out of scope that chains of interfaces out of scope lead
\* to from the interfaces of todo.
RECURSIVE ExcludedReachable(_, _)
ExcludedReachable(todo, seen) ==
    IF todo = {} THEN seen
    ELSE LET x == CHOOSE t \in todo : TRUE
         IN  ExcludedReachable(
                (todo \cup {i \in DirectInterfaces(x) : i \notin allClasses}) \ (seen \cup {x}),
                seen \cup {x})

ExcludedBelow(c) == ExcludedReachable({i \in DirectInterfaces(c) : i \notin allClasses}, {})

\* The interfaces list intfs of class c, which starts with its superclass
\* when that is not null, holds after it exactly the in-scope interfaces
\* that c or one of the traversed interfaces names (or the implicit root
\* alone when there is none), each once, and the traversed interfaces are
\* recorded.
ResolvedThrough(c, intfs, superclass, traversed) ==
    LET rest    == IF superclass = Null THEN intfs ELSE Tail(intfs)
        inScope == {i \in DirectInterfaces(c) \cup UNION {DirectInterfaces(t) : t \in traversed} :
                        i \in allClasses}
    IN  /\ Range(rest) = inScope \/ (inScope = {} /\ Range(rest) = {JavaLangObject})
        /\ Range(rest) \cap allExcludedClasses = {}
        /\ Cardinality(Range(rest)) = Len(rest)
        /\ traversed \subseteq unhandledInterfaces

\* C21: the resolved interfaces of every class that mapClass has entered
\* are exactly the in-scope interfaces reachable from its reflected
\* interfaces through interfaces out of scope; none of them is excluded,
\* none occurs twice, every interface traversed is in unhandledInterfaces,
\* and nothing else is.
C21_ResolvedInterfaces ==
    /\ \A i \in 1..Len(stack) :
            ResolvedThrough(stack[i].className, stack[i].interfaces, stack[i].superclass,
                            ExcludedBelow(stack[i].className))
    /\ \A c \in DOMAIN classes :
            ResolvedThrough(c, classes[c].interfaces, classes[c].superclass, ExcludedBelow(c))
    /\ unhandledInterfaces \subseteq
            UNION {ExcludedBelow(c) : c \in {x \in classCache : mapCalls[x] > 0}}

\* C21 witness: q.D names p.K and p.J, both out of scope, and both lead to
\* p.I, which is in scope: p.I is resolved once and p.K and p.J are recorded.
C21_Witness ==
    /\ q_D \in DOMAIN classes
    /\ p_I \in allClasses
    /\ classes[q_D].interfaces = <<JavaLangObject, p_I>>
    /\ unhandledInterfaces = {p_K, p_J}

\* The in-scope interfaces that c or an interface traversed from c names.
InScopeBelow(c) ==
    {i \in DirectInterfaces(c) \cup UNION {DirectInterfaces(t) : t \in ExcludedBelow(c)} :
        i \in allClasses}

\* The descriptor entry of class c has the implicit root as its single
\* interface when it has no resolved interface and no superclass and is not
\* the root, and an empty interfaces list, or depth 0, only when it is the
\* root.
RootIsImplicit(c, entry, resolved) ==
    /\ (entry.superclass = Null) = (Reflect(c).superclass = Null)
    /\ (resolved = {} /\ entry.superclass = Null /\ c # JavaLangObject)
            => entry.interfaces = <<JavaLangObject>>
    /\ (entry.interfaces = << >>) = (c = JavaLangObject)
    /\ (interfaceDepth(classes, interfaceDepthCache, c) = 0) = (c = JavaLangObject)

\* C22: a class of the table with no resolved interface and no superclass
\* that is not java.lang.Object has java.lang.Object as its single
\* interface, and java.lang.Object is the only class of the table whose
\* interfaces list is empty and the only one of interface depth 0.
C22_ImplicitRootInterface ==
    \A c \in DOMAIN classes : RootIsImplicit(c, classes[c], InScopeBelow(c))

\* C22 witness: the interface p.I, which extends nothing, is in the table
\* with java.lang.Object as its only interface, next to java.lang.Object.
C22_Witness ==
    /\ p_I \in DOMAIN classes
    /\ JavaLangObject \in DOMAIN classes
    /\ classes[p_I].interfaces = <<JavaLangObject>>
    /\ classes[JavaLangObject].interfaces = << >>
    /\ interfaceDepth(classes, interfaceDepthCache, p_I) = 1

\* C24: every element of unhandledTypes, unhandledInterfaces and
\* unhandledSuperClasses is the name of a class, and of a class that is not
\* in allClasses.
C24_DiagnosticsAreExcludedClasses ==
    \A n \in unhandledTypes \cup unhandledInterfaces \cup unhandledSuperClasses :
        n \in ClassUniverse /\ n \notin allClasses

\* The class cache and the interface-depth cache keep every entry they have,
\* with its value.
CachesGrow ==
    /\ classCache \subseteq classCache'
    /\ \A c \in DOMAIN interfaceDepthCache :
            c \in DOMAIN interfaceDepthCache' /\ interfaceDepthCache'[c] = interfaceDepthCache[c]

\* C25 as stated: the two caches only grow, and once initialize() has
\* completed no step (each is a public query) changes the in-scope and
\* excluded sets, the short-name map, the caches, the class table or any of
\* the three diagnostic sets.
C25_ReadOnlyAfterInitialize ==
    [][/\ CachesGrow
       /\ Phase = "done" =>
            UNCHANGED <<allClasses, allExcludedClasses, shortToLongNameMap, classCache,
                        interfaceDepthCache, classes, unhandledInterfaces,
                        unhandledSuperClasses, unhandledTypes>>]_vars

\* C25, amended: the two caches only grow, and once initialize() has
\* completed the public queries tsTypeName, translateGenericType and
\* translateGenericProto change none of the sets, the short-name map, the
\* caches, the class table, unhandledInterfaces and unhandledSuperClasses;
\* unhandledTypes is not read-only, a query can add names to it, and none is
\* removed.
C25_ReadOnlyButUnhandledTypes ==
    [][/\ CachesGrow
       /\ Phase = "done" =>
            /\ UNCHANGED <<allClasses, allExcludedClasses, shortToLongNameMap, classCache,
                           interfaceDepthCache, classes, unhandledInterfaces,
                           unhandledSuperClasses>>
            /\ unhandledTypes \subseteq unhandledTypes']_vars

\* C25 witness: initialize() has completed with both caches and the class
\* table filled, and a call of tsTypeName has added to unhandledTypes, which
\* was not empty before.
C25_Witness ==
    /\ Phase = "done"
    /\ answer.asked /\ answer.call = "tsTypeName"
    /\ answer.before # {}
    /\ answer.before # unhandledTypes
    /\ answer.before \subseteq unhandledTypes
    /\ p_D \in classCache
    /\ p_D \in DOMAIN interfaceDepthCache
    /\ p_D \in DOMAIN classes

\* The innermost mapClass has been through all its interfaces:
\* mapClassMethods, groupMethods and mergeOverloadedVariants are next.
AboutToMerge ==
    /\ Phase = "analyzeIncludedClasses"
    /\ stack # << >>
    /\ stack[Len(stack)].next > Len(stack[Len(stack)].interfaces)

\* The dictionary of the table entry of `a` holds, for each of its method
\* names, every signature that an entry of `inherited` has for that name.
HasMerged(a, inherited) ==
    \A b \in inherited :
        /\ b \in DOMAIN classes
        /\ \A name \in DOMAIN classes[a].variantsDict \cap DOMAIN classes[b].variantsDict :
                DOMAIN classes[b].variantsDict[name]
                    \subseteq DOMAIN classes[a].variantsDict[name]

\* C27: during analysis every name the worklist holds as done has its
\* descriptor in the class table, and so has every interface a mapClass in
\* progress has already been through; when mergeOverloadedVariants is about
\* to run for a class, every class in the transitive closure of its
\* interfaces list (its superclass included) has a table entry, is done, and
\* that entry's variants dictionary has received the merge from its own
\* closure.
C27_AncestorsComplete ==
    /\ (Phase = "analyzeIncludedClasses" /\ work.live) =>
            /\ \A n \in ClassUniverse : alreadyDone(work, n) => n \in DOMAIN classes
            /\ \A k \in 1..Len(stack) : \A i \in 1..(stack[k].next - 1) :
                    i <= Len(stack[k].interfaces) => stack[k].interfaces[i] \in DOMAIN classes
    /\ AboutToMerge =>
            \A a \in interfacesTransitiveClosure(classes, stack[Len(stack)].interfaces) :
                /\ a \in DOMAIN classes
                /\ alreadyDone(work, a)
                /\ HasMerged(a, interfacesTransitiveClosure(classes, classes[a].interfaces))

\* C27 witness: mapClass of q.D, whose superclass p.D lies over the diamond
\* of p.I, is about to merge: the six classes of its closure are in the
\* table and done, and p.D's dictionary holds bar(I)V, which it took from
\* p.J.
C27_Witness ==
    /\ AboutToMerge
    /\ stack[Len(stack)].className = q_D
    /\ interfacesTransitiveClosure(classes, stack[Len(stack)].interfaces)
            = {p_D, p_B, p_K, p_J, p_I, JavaLangObject}
    /\ \A a \in {p_D, p_B, p_K, p_J, p_I, JavaLangObject} : alreadyDone(work, a)
    /\ q_D \notin DOMAIN classes
    /\ classes[p_D].variantsDict # groupMethods(classes[p_D].methods)

\* C28: a step that changes the class table is the return of the innermost
\* mapClass, for a class C that had no entry: it adds C's entry and leaves
\* the entry of every other class (its methods, its variants dictionary and
\* every other field) as it was; the method names of C's variants dictionary
\* are those of its own grouped methods, and under each name the dictionary
\* keeps every signature C's own methods have.
C28_MergeFrame ==
    [][classes' # classes =>
        /\ AboutToMerge
        /\ stack[Len(stack)].className \notin DOMAIN classes
        /\ DOMAIN classes' = DOMAIN classes \cup {stack[Len(stack)].className}
        /\ \A c \in DOMAIN classes : classes'[c] = classes[c]
        /\ LET mapped == classes'[stack[Len(stack)].className]
               own    == groupMethods(mapped.methods)
           IN  /\ DOMAIN mapped.variantsDict = DOMAIN own
               /\ \A name \in DOMAIN own :
                    DOMAIN own[name] \subseteq DOMAIN mapped.variantsDict[name]]_vars

\* C28 witness: p.I, whose only ancestor is java.lang.Object, was mapped and
\* merged after it: Object's entry has hash, p.I's dictionary has not; and
\* p.D's merge changed p.D's dictionary while p.J, from which it took
\* bar(I)V, still has the dictionary of its own merge.
C28_Witness ==
    /\ {JavaLangObject, p_I, p_J, p_D} \subseteq DOMAIN classes
    /\ Hash \in DOMAIN classes[JavaLangObject].variantsDict
    /\ Hash \notin DOMAIN classes[p_I].variantsDict
    /\ classes[p_I].interfaces = <<JavaLangObject>>
    /\ classes[p_D].variantsDict # groupMethods(classes[p_D].methods)
    /\ classes[p_D].variantsDict[Bar] = classes[p_J].variantsDict[Bar]

TsAny == <<"a", "n", "y">>

\* C30: a call of tsTypeName that returns does not return 'any'; no method
\* descriptor of the class table has 'any' as the TypeScript type of a
\* parameter or of its result, so countArgsOfTypeAny is 0 for every one of
\* them and is the same for any two.
C30_NeverAny ==
    /\ (answer.asked /\ answer.call = "tsTypeName" /\ answer.result.outcome = "return")
            => answer.result.typeName # TsAny
    /\ \A c \in DOMAIN classes :
            /\ \A m \in classes[c].methods :
                    /\ TsAny \notin Range(m.tsParamTypes)
                    /\ m.tsReturnsRegular # TsAny
                    /\ countArgsOfTypeAny(m) = 0
            /\ \A name \in DOMAIN classes[c].variantsDict :
                    \A x, y \in Values(classes[c].variantsDict[name]) :
                        countArgsOfTypeAny(x) = countArgsOfTypeAny(y)

\* C30 witness: q.D is mapped while p.B and java.lang.Integer are known and
\* out of scope: the int parameter of its bar is an object_t, and
\* tsTypeName('p.B') has answered object_t and recorded p.B as unhandled.
C30_Witness ==
    /\ Phase = "done"
    /\ q_D \in DOMAIN classes
    /\ p_B \in allExcludedClasses
    /\ JavaLangInteger \in allExcludedClasses
    /\ \E m \in classes[q_D].methods :
            m.name = Bar /\ m.tsParamTypes = <<<<"o", "b", "j", "e", "c", "t", "_", "t">>>>
    /\ answer.asked /\ answer.call = "tsTypeName"
    /\ query.javaTypeName = p_B /\ query.context = "eInput"
    /\ answer.result.outcome = "return"
    /\ answer.result.typeName = <<"o", "b", "j", "e", "c", "t", "_", "t">>
    /\ p_B \in unhandledTypes

(***************************************************************************)
(* Properties of the two sets of names (checked under SpecSets).           *)
(***************************************************************************)
\* C26: allClasses and allExcludedClasses are disjoint in every state;
\* load-and-prune keeps their union, moving names only from allClasses to
\* allExcludedClasses; and for a known name for which neither
\* isIncludedClass nor isExcludedClass throws, isIncludedClass is the
\* negation of isExcludedClass.
C26_IncludedXorExcluded ==
    /\ [](/\ allClasses \cap allExcludedClasses = {}
          /\ (/\ answer.asked
              /\ answer.call = "isIncludedClass"
              /\ answer.included.outcome = "return"
              /\ answer.excluded.outcome = "return")
                => answer.included.value = ~answer.excluded.value)
    /\ [][Phase = "loadClassCache" =>
            /\ allClasses' \cup allExcludedClasses' = allClasses \cup allExcludedClasses
            /\ allClasses' \subseteq allClasses
            /\ allExcludedClasses \subseteq allExcludedClasses']_vars

\* The first two parts of C26 on their own.
DisjointAndPreserved ==
    /\ [](allClasses \cap allExcludedClasses = {})
    /\ [][Phase = "loadClassCache" =>
            /\ allClasses' \cup allExcludedClasses' = allClasses \cup allExcludedClasses
            /\ allClasses' \subseteq allClasses
            /\ allExcludedClasses \subseteq allExcludedClasses']_vars

(***************************************************************************)
(* Properties of compareVariants (checked under SpecCV).                   *)
(***************************************************************************)
\* C12: compareVariants is a strict weak ordering on the descriptors of one
\* method name: a descriptor compares 0 with itself, exchanging the arguments
\* exchanges the sign, "before" is transitive and so is "compares 0", and two
\* descriptors compare 0 only when their signatures are equal.
C12_StrictWeakOrdering ==
    (answer.asked /\ answer.call = "compareVariants") =>
        /\ answer.aa = 0
        /\ answer.ab = -answer.ba
        /\ (answer.ab < 0 /\ answer.bc < 0) => answer.ac < 0
        /\ (answer.ab = 0 /\ answer.bc = 0) => answer.ac = 0
        /\ answer.ab = 0 => query.a.signature = query.b.signature

\* C12 witness: three variants with as many parameters, as many 'any' and
\* signatures as long, which the comparison of the signatures puts in order.
C12_Witness ==
    /\ answer.asked
    /\ answer.call = "compareVariants"
    /\ answer.ab < 0 /\ answer.bc < 0 /\ answer.ac < 0
    /\ Len(query.a.paramTypes) = Len(query.c.paramTypes)
    /\ countArgsOfTypeAny(query.a) = countArgsOfTypeAny(query.c)
    /\ Len(query.a.signature) = Len(query.c.signature)
    /\ query.a.signature # query.b.signature
    /\ query.b.signature # query.c.signature

\* Descriptor x goes before descriptor y by the keys of the variants view:
\* more parameters; then fewer parameters of type any; then the longer
\* signature; then the signature that is later in the collation; then the
\* generic prototype that is earlier.
GoesBefore(x, y, collation) ==
    \/ Len(x.paramTypes) > Len(y.paramTypes)
    \/ /\ Len(x.paramTypes) = Len(y.paramTypes)
       /\ \/ countArgsOfTypeAny(x) < countArgsOfTypeAny(y)
          \/ /\ countArgsOfTypeAny(x) = countArgsOfTypeAny(y)
             /\ \/ Len(x.signature) > Len(y.signature)
                \/ /\ Len(x.signature) = Len(y.signature)
                   /\ \/ localeCompare(x.signature, y.signature, collation) > 0
                      \/ /\ localeCompare(x.signature, y.signature, collation) = 0
                         /\ localeCompare(x.generic_proto, y.generic_proto, collation) < 0

\* C23: the entry of the variants view for a method name lists every
\* descriptor of the name's group once, each before the descriptors that
\* the keys (a) to (e) put after it, and two enumerations of the methods
\* that give the same group give the same entry.
C23_VariantsOrder ==
    (answer.asked /\ answer.call = "variants") =>
        /\ Range(answer.variants) = answer.group
        /\ Len(answer.variants) = Cardinality(answer.group)
        /\ \A i, j \in 1..Len(answer.variants) :
                i < j => GoesBefore(answer.variants[i], answer.variants[j], query.collation)
        /\ answer.group = answer.regroup => answer.variants = answer.reversed

\* C23 witness: a group of three descriptors with as many parameters, none
\* of type any, and signatures as long, which flattenDictionary lists in
\* another order than the view has them.
C23_Witness ==
    /\ answer.asked
    /\ answer.call = "variants"
    /\ Len(answer.variants) = 3
    /\ answer.group = answer.regroup
    /\ \A i \in 1..3 :
            /\ Len(answer.variants[i].paramTypes) = 1
            /\ countArgsOfTypeAny(answer.variants[i]) = 0
            /\ Len(answer.variants[i].signature) = Len(answer.variants[1].signature)
    /\ answer.variants \notin flattenDictionary(VariantsBySignature(<<query.a, query.b, query.c>>))

(***************************************************************************)
(* Properties of the whitelist (checked under SpecWL).                     *)
(***************************************************************************)
\* A name made of one or more nonempty segments of word characters and $,
\* separated by single dots.
IsSegment(s) == s # << >> /\ \A i \in 1..Len(s) : IsWordChar(s[i]) \/ s[i] = "$"

IsDottedName(s) ==
    /\ s # << >>
    /\ s[1] # "." /\ s[Len(s)] # "."
    /\ \A i \in 1..(Len(s) - 1) : ~(s[i] = "." /\ s[i + 1] = ".")
    /\ \A i \in 1..Len(s) : IsWordChar(s[i]) \/ s[i] \in {"$", "."}

\* x names a class (or $-nested class) directly in package pkg.
DirectMember(pkg, x) ==
    /\ StartsWith(x, pkg \o <<".">>)
    /\ IsSegment(SubSeq(x, Len(pkg) + 2, Len(x)))

\* x names a class in a sub-package of pkg.
InSubPackage(pkg, x) ==
    /\ StartsWith(x, pkg \o <<".">>)
    /\ IsDottedName(SubSeq(x, Len(pkg) + 2, Len(x)))
    /\ ~IsSegment(SubSeq(x, Len(pkg) + 2, Len(x)))

\* C8: the matcher compiled from an expression pkg.* accepts every class or
\* $-nested class directly in pkg and rejects every class of a sub-package;
\* the matcher compiled from pkg.** accepts both.
C8_PackageWildcards ==
    (answer.asked /\ options.classes = {}) =>
        \A p \in options.packages :
            /\ (EndsWith(p, <<".", "*">>) /\ ~EndsWith(p, <<"*", "*">>)) =>
                    LET pkg == SubSeq(p, 1, Len(p) - 2)
                    IN  /\ DirectMember(pkg, query) => answer.matched # {}
                        /\ InSubPackage(pkg, query) => answer.matched = {}
            /\ EndsWith(p, <<".", "*", "*">>) =>
                    LET pkg == SubSeq(p, 1, Len(p) - 3)
                    IN  (DirectMember(pkg, query) \/ InSubPackage(pkg, query))
                            => answer.matched # {}

\* C8 witness: a.* has been asked about the nested class a.b$a and about
\* nothing else, and accepted it.
C8_Witness ==
    /\ answer.asked
    /\ options.packages = {<<"a", ".", "*">>}
    /\ query = <<"a", ".", "b", "$", "a">>
    /\ answer.matched # {}

\* C9 (as claimed): with a bare class name as the only configured entry,
\* inWhiteList(x) is true for that name and false for every other class
\* name x.
C9_BareNameMatchesItselfOnly ==
    (answer.asked /\ IsDottedName(query)) =>
        \A e \in (options.packages \cup options.classes) \cap WLBareNames :
            answer.allowed <=> (query = e)

=============================================================================
